---- MODULE Spec2Model ----
(***************************************************************************)
(* Model of the stellarswap tool dispatcher (src/src/index.ts), of the     *)
(* swap-data adapter (src/src/soroswap-client.ts) and of the vault-data    *)
(* adapter (defindex-client.ts, listed in src/README.md).                  *)
(*                                                                         *)
(* One tool invocation is in flight at a time.  An invocation is split at  *)
(* its suspension points: every await of an outbound call is a state in    *)
(* which the environment chooses the answer (a body, a rejection, or, for  *)
(* the HTTP client, the expiry of its timeout).  Everything the handler    *)
(* does between two awaits is one step.                                    *)
(***************************************************************************)
EXTENDS Integers, Sequences, FiniteSets, TLC

\* Bound of the model: invocations served in one behaviour.
MaxInvocations == 2

(***************************************************************************)
(* JSON values of the argument mapping.  A value is tagged with its type;  *)
(* the handlers cast with `as string`, which checks nothing at run time.   *)
(***************************************************************************)
Undef == [t |-> "undefined", s |-> ""]
Str(s) == [t |-> "string", s |-> s]
JsTrue == [t |-> "boolean", s |-> "true"]
JsFalse == [t |-> "boolean", s |-> "false"]
\* An object with no callable toString and the inherited valueOf, such as
\* {"toString": null}: ToPrimitive on it throws a TypeError.
NoPrimObj == [t |-> "object", s |-> "{toString:null}"]

\* JavaScript truthiness, as used by `x || default` and `x ? a : b`.
Truthy(v) ==
    CASE v.t = "undefined" -> FALSE
      [] v.t = "string" -> v.s # ""
      [] v.t = "boolean" -> v.s = "true"
      [] OTHER -> TRUE

\* a faulty variant of `x || d`: the default replaces only undefined
OrElseWhenAbsent(v, d) == IF v.t = "undefined" THEN d ELSE v

\* `x || d`
OrElse(v, d) == IF Truthy(v) THEN v ELSE d

\* ToString / ToPropertyKey / parseFloat's argument conversion throws
\* exactly on a value with no primitive conversion.
ToPrimitiveThrows(v) == v.t = "object"

\* `error instanceof Error ? error.message : 'Unknown error'` for the
\* TypeError of a failed primitive conversion.
NoPrimMessage == "Cannot convert object to primitive value"

(***************************************************************************)
(* The operation catalog of the combined server, in advertised order.      *)
(***************************************************************************)
\* a faulty variant of the catalog: the combined analysis is dispatched
\* but not advertised
ToolListWithoutCombined ==
    << "soroswap_get_token_pairs", "soroswap_get_swap_quote",
       "soroswap_get_liquidity_pools", "soroswap_get_token_price",
       "defindex_get_vaults", "defindex_get_vault_details",
       "defindex_optimize_allocation" >>

ToolList ==
    << "soroswap_get_token_pairs", "soroswap_get_swap_quote",
       "soroswap_get_liquidity_pools", "soroswap_get_token_price",
       "defindex_get_vaults", "defindex_get_vault_details",
       "defindex_optimize_allocation", "combined_portfolio_analysis" >>

\* The names the switch of the CallTool handler has a case for.
SwitchCases ==
    { "soroswap_get_token_pairs", "soroswap_get_swap_quote",
      "soroswap_get_liquidity_pools", "soroswap_get_token_price",
      "defindex_get_vaults", "defindex_get_vault_details",
      "defindex_optimize_allocation", "combined_portfolio_analysis" }

\* Names a caller may send that no case matches (tools of the standalone
\* servers, a misspelling, the empty name).
OtherNames == { "get_token_pairs", "optimize_yield_allocation", "" }

RequestNames == SwitchCases \cup OtherNames

(***************************************************************************)
(* process.env.STELLAR_NETWORK, read at every call.                        *)
(***************************************************************************)
EnvNetworks == { Undef, Str(""), Str("testnet"), Str("mainnet") }

(***************************************************************************)
(* JavaScript numbers the handlers compute with, in hundredths (Unit to    *)
(* the whole); NaN is kept apart.  parseFloat reads a decimal prefix: the  *)
(* strings of the model that have one are listed in DecimalOf, every       *)
(* other string gives NaN.  DecimalOf holds the value cut to hundredths    *)
(* and FineOf what was cut, in units of 10^-7 (one stroop); only the swap  *)
(* quote is given amounts that are finer than a hundredth.                 *)
(***************************************************************************)
Unit == 100
NaN == [nan |-> TRUE, u |-> 0]
Num(u) == [nan |-> FALSE, u |-> u]
Add(a, b) == IF a.nan \/ b.nan THEN NaN ELSE Num(a.u + b.u)
\* a * (n / d) for a decimal constant n/d of the source
Scale(a, n, d) == IF a.nan THEN NaN ELSE Num((a.u * n) \div d)

DecimalOf ==
    "0" :> 0 @@ "0.5" :> 50 @@ "1" :> 100 @@ "2.5" :> 250 @@ "10" :> 1000 @@
    "1000" :> 1000 * Unit @@ "2000" :> 2000 * Unit @@ "10000" :> 10000 * Unit @@
    "240000" :> 240000 * Unit @@ "170000" :> 170000 * Unit @@
    "90000" :> 90000 * Unit @@
    "8.5" :> 850 @@ "15.2" :> 1520 @@ "25.7" :> 2570 @@ "12.1" :> 1210 @@
    "1000000.0000000" :> 1000000 * Unit @@ "500000.0000000" :> 500000 * Unit @@
    "250000.0000000" :> 250000 * Unit @@ "750000.0000000" :> 750000 * Unit @@
    "2000.00" :> 2000 * Unit @@ "100.00" :> 100 * Unit @@
    "5200.0000000" :> 5200 * Unit @@ "4800.0000000" :> 4800 * Unit @@
    "200.0000000" :> 200 * Unit @@ "300.0000000" :> 300 * Unit @@
    "1500.0000000" :> 1500 * Unit @@ "-50.0000000" :> (0 - 50) * Unit @@
    "25.5000000" :> 2550 @@ "40.0000000" :> 40 * Unit @@
    "70" :> 70 * Unit @@ "50" :> 50 * Unit @@ "30" :> 30 * Unit @@ "40" :> 40 * Unit @@
    "10.51" :> 1051 @@ "11.85" :> 1185 @@ "100" :> 100 * Unit @@
    "0.01" :> 1 @@ "0.0000001" :> 0 @@ "0.0000002" :> 0 @@
    "15.21" :> 1521 @@
    "1.0" :> 100 @@ "1.5" :> 150 @@ "2.0" :> 200 @@
    "10.0" :> 10 * Unit @@ "15.0" :> 15 * Unit @@ "20.0" :> 20 * Unit

FineOf == "0.0000001" :> 1 @@ "0.0000002" :> 2

\* the part of parseFloat(v) below one hundredth, in units of 10^-7
Fine(v) == IF v.t = "string" /\ v.s \in DOMAIN FineOf THEN FineOf[v.s] ELSE 0

\* parseFloat(s) for a string s
ParseFloatStr(s) == IF s \in DOMAIN DecimalOf THEN Num(DecimalOf[s]) ELSE NaN

\* parseFloat(v) for a JSON value v with a primitive conversion:
\* undefined, true and false read as "undefined", "true", "false".
ParseFloat(v) == IF v.t = "string" THEN ParseFloatStr(v.s) ELSE NaN

\* rec.k as a JSON value: undefined when the record has no such field
Get(rec, k) == IF k \in DOMAIN rec THEN Str(rec[k]) ELSE Undef

RECURSIVE SumSeq(_, _)
\* items.reduce((sum, x) => sum + F(x), 0), F given as a sequence of terms
SumSeq(terms, i) ==
    IF i > Len(terms) THEN Num(0) ELSE Add(terms[i], SumSeq(terms, i + 1))

\* new Date().toISOString()
NowISO == "<now>"

(***************************************************************************)
(* Values an adapter method resolves with.                                 *)
(***************************************************************************)
Arr(items) == [kind |-> "array", items |-> items]
\* a truthy value that is no array (a string, a number, an object)
NotArr == [kind |-> "notarray", items |-> <<>>]
Obj(o) == [kind |-> "object", obj |-> o]
NoValue == [kind |-> "undefined"]

(***************************************************************************)
(* SoroswapClient: the mock generators.                                    *)
(***************************************************************************)
XLM == [address |-> "native", symbol |-> "XLM", name |-> "Stellar Lumens", decimals |-> 7]
USDC ==
    [address |-> "CAQCFVLOBK5GIULPNZRGATJJMIZL5BSP7X5YJNU4TKDGSR3RCNBFIW7A",
     symbol |-> "USDC", name |-> "USD Coin", decimals |-> 6]
AQUA ==
    [address |-> "CAQCFVLOBK5GIULPNZRGATJJMIZL5BSP7X5YJNU4TKDGSR3RCNBFIW7A",
     symbol |-> "AQUA", name |-> "Aqua Token", decimals |-> 7]

mockPairs ==
    << [pairAddress |-> "CDLZFC3SYJYDZT7K67VZ75HPJVIEUVNIXF47ZG2FB2RMQQAHHAGHJMUOB",
        token0 |-> XLM, token1 |-> USDC,
        reserve0 |-> "1000000.0000000", reserve1 |-> "120000.000000",
        totalSupply |-> "346410.1610000", fee |-> "0.3",
        volume24h |-> "125000", tvl |-> "240000", apr |-> "12.5"],
       [pairAddress |-> "CAZNWAY5GKNZUY5QFPZJQY7JXDLWNXKXFKQ3KBQPG7QJLCZ7XQMDMCGL",
        token0 |-> XLM, token1 |-> AQUA,
        reserve0 |-> "800000.0000000", reserve1 |-> "2500000.0000000",
        totalSupply |-> "1414213.5620000", fee |-> "0.3",
        volume24h |-> "85000", tvl |-> "170000", apr |-> "18.2"] >>

\* a faulty variant of the filter: the addresses are not compared
PairMatchesSymbolOnly(pair, token) ==
    /\ token.t = "string"
    /\ \/ pair.token0.symbol = token.s
       \/ pair.token1.symbol = token.s

\* pair.token0.symbol === token || ... : strict equality with a JSON value
PairMatches(pair, token) ==
    /\ token.t = "string"
    /\ \/ pair.token0.symbol = token.s
       \/ pair.token1.symbol = token.s
       \/ pair.token0.address = token.s
       \/ pair.token1.address = token.s

getMockTokenPairs(token) ==
    IF Truthy(token)
    THEN LET Keep(pair) == PairMatches(pair, token)
         IN  SelectSeq(mockPairs, Keep)
    ELSE mockPairs

\* a faulty variant of the pool filter: every pool is returned
getMockLiquidityPoolsUnfiltered(pairAddress) == mockPairs

\* mockPools.filter(pool => pool.pairAddress === pairAddress), over the
\* pairs of getMockTokenPairs()
getMockLiquidityPools(pairAddress) ==
    IF Truthy(pairAddress)
    THEN LET Keep(pool) == pairAddress.t = "string" /\ pool.pairAddress = pairAddress.s
         IN  SelectSeq(getMockTokenPairs(Undef), Keep)
    ELSE getMockTokenPairs(Undef)

\* n / d rounded to the nearest integer (n, d >= 0)
RoundDiv(n, d) == (2 * n + d) \div (2 * d)

\* x * n / d rounded to the nearest integer, x split at d so that no
\* intermediate product leaves the 32-bit range
MulDiv(x, n, d) == (x \div d) * n + RoundDiv((x % d) * n, d)

\* parseFloat(amountIn) * 0.12 * 0.997 before rounding, in millionths:
\* whole + frac / 10^6.  With u hundredths and f stroops the product is
\* u * 1196.4 + f * 0.011964 (amounts up to 10000).
QuoteExact(amountIn) ==
    LET u == ParseFloat(amountIn).u
        n == ((u * 4) % 10) * 100000 + Fine(amountIn) * 11964
    IN  [whole |-> u * 1196 + (u * 4) \div 10 + n \div 1000000, frac |-> n % 1000000]

\* a faulty variant of the output amount: the same amount whatever goes in
QuoteOutFlat(amountIn) ==
    IF ParseFloat(amountIn).nan THEN NaN ELSE Num(119640000)

\* (parseFloat(amountIn) * 0.12 * 0.997).toFixed(6), in millionths
QuoteOut(amountIn) ==
    LET x == QuoteExact(amountIn)
    IN  IF ParseFloat(amountIn).nan THEN NaN
        ELSE Num(x.whole + (x.frac + 500000) \div 1000000)

\* a faulty variant of the minimum: the slippage is not taken off
QuoteMinIgnoresSlippage(amountIn, slippage) ==
    IF ParseFloat(amountIn).nan \/ ParseFloat(slippage).nan THEN NaN
    ELSE Num(QuoteExact(amountIn).whole)

\* (parseFloat(amountIn) * 0.12 * 0.997 * (1 - parseFloat(slippage) / 100))
\* .toFixed(6), in millionths.  The slippage is a multiple of half a
\* percent up to 100: the factor is k / 200.
QuoteMin(amountIn, slippage) ==
    LET x == QuoteExact(amountIn)
        k == 200 - ParseFloat(slippage).u \div 50
        b == (x.whole % 200) * k
        n == (b % 200) * 1000000 + x.frac * k
    IN  IF ParseFloat(amountIn).nan \/ ParseFloat(slippage).nan THEN NaN
        ELSE Num((x.whole \div 200) * k + b \div 200 + (n + 100000000) \div 200000000)

\* a faulty variant of the quote: the route is given backwards
getMockSwapQuoteReversed(tokenIn, tokenOut, amountIn, slippage) ==
    [tokenIn |-> [address |-> tokenIn, symbol |-> "XLM", name |-> "Stellar Lumens", decimals |-> 7],
     tokenOut |-> [address |-> tokenOut, symbol |-> "USDC", name |-> "USD Coin", decimals |-> 6],
     amountIn |-> amountIn,
     amountOut |-> QuoteOut(amountIn),
     priceImpact |-> "0.1",
     route |-> <<tokenOut, tokenIn>>,
     slippage |-> slippage,
     fee |-> "0.3",
     minimumReceived |-> QuoteMin(amountIn, slippage),
     gasEstimate |-> "0.001"]

\* The caller has checked that amountIn and slippage convert to a primitive.
getMockSwapQuote(tokenIn, tokenOut, amountIn, slippage) ==
    [tokenIn |-> [address |-> tokenIn, symbol |-> "XLM", name |-> "Stellar Lumens", decimals |-> 7],
     tokenOut |-> [address |-> tokenOut, symbol |-> "USDC", name |-> "USD Coin", decimals |-> 6],
     amountIn |-> amountIn,
     amountOut |-> QuoteOut(amountIn),
     priceImpact |-> "0.1",
     route |-> <<tokenIn, tokenOut>>,
     slippage |-> slippage,
     fee |-> "0.3",
     minimumReceived |-> QuoteMin(amountIn, slippage),
     gasEstimate |-> "0.001"]

soroswapMockUserPositions ==
    << [pairAddress |-> "CDLZFC3SYJYDZT7K67VZ75HPJVIEUVNIXF47ZG2FB2RMQQAHHAGHJMUOB",
        token0 |-> "XLM", token1 |-> "USDC",
        lpTokenBalance |-> "1000.0000000", shareOfPool |-> "0.01",
        token0Amount |-> "8333.3333333", token1Amount |-> "1000.000000",
        value |-> "2000.00", pnl |-> "100.00", pnlPercent |-> "5.0"] >>

(***************************************************************************)
(* DefindexClient: the mock generators.                                    *)
(***************************************************************************)
mockVaults ==
    << [address |-> "CBQHNAXSI55GX2GN6D67GK7BHKQKQHX4J5DYKEN6PKVP7DTCMMY7XAQD",
        name |-> "Stellar Stable Yield Vault", symbol |-> "SSYV",
        totalAssets |-> "1000000.0000000", totalSupply |-> "950000.0000000",
        apy |-> "8.5", strategy |-> "USDC-XLM Liquidity Mining on Soroswap",
        riskLevel |-> "low",
        underlyingTokens |-> <<"USDC", "XLM">>,
        underlyingProtocols |-> <<"Soroswap">>,
        feeStructure |-> [managementFee |-> "1.0", performanceFee |-> "10.0"],
        performance |-> ("7d" :> "0.15" @@ "30d" :> "0.68" @@ "90d" :> "2.1" @@ "1y" :> "8.5")],
       [address |-> "CDLZFC3SYJYDZT7K67VZ75HPJVIEUVNIXF47ZG2FB2RMQQAHHAGHJMUOB",
        name |-> "Balanced Growth Vault", symbol |-> "BGV",
        totalAssets |-> "500000.0000000", totalSupply |-> "480000.0000000",
        apy |-> "15.2", strategy |-> "Multi-Protocol Yield Farming",
        riskLevel |-> "medium",
        underlyingTokens |-> <<"XLM", "USDC", "AQUA">>,
        underlyingProtocols |-> <<"Soroswap", "Stellar DEX">>,
        feeStructure |-> [managementFee |-> "1.5", performanceFee |-> "15.0"],
        performance |-> ("7d" :> "0.25" @@ "30d" :> "1.2" @@ "90d" :> "3.8" @@ "1y" :> "15.2")],
       [address |-> "CAZNWAY5GKNZUY5QFPZJQY7JXDLWNXKXFKQ3KBQPG7QJLCZ7XQMDMCGL",
        name |-> "High Yield Vault", symbol |-> "HYV",
        totalAssets |-> "250000.0000000", totalSupply |-> "230000.0000000",
        apy |-> "25.7", strategy |-> "Leveraged Yield Farming",
        riskLevel |-> "high",
        underlyingTokens |-> <<"XLM", "AQUA">>,
        underlyingProtocols |-> <<"Soroswap", "Lending Protocol">>,
        feeStructure |-> [managementFee |-> "2.0", performanceFee |-> "20.0"],
        performance |-> ("7d" :> "0.45" @@ "30d" :> "2.0" @@ "90d" :> "6.4" @@ "1y" :> "25.7")] >>

\* the riskLevel filter of getMockVaults
VaultsOfRisk(riskLevel) ==
    IF Truthy(riskLevel)
    THEN LET Keep(vault) == riskLevel.t = "string" /\ vault.riskLevel = riskLevel.s
         IN  SelectSeq(mockVaults, Keep)
    ELSE mockVaults

\* a faulty variant of the minApy test: the vault must yield more than minApy
ApyAbove(vault, minApy) ==
    LET a == ParseFloatStr(vault.apy)
        m == ParseFloat(minApy)
    IN  ~a.nan /\ ~m.nan /\ a.u > m.u

\* parseFloat(vault.apy) >= parseFloat(minApy); a comparison with NaN is false
ApyAtLeast(vault, minApy) ==
    LET a == ParseFloatStr(vault.apy)
        m == ParseFloat(minApy)
    IN  ~a.nan /\ ~m.nan /\ a.u >= m.u

\* getMockVaults throws when the minApy filter runs on at least one vault
\* and minApy has no primitive conversion.
getMockVaultsThrows(riskLevel, minApy) ==
    /\ Truthy(minApy)
    /\ ToPrimitiveThrows(minApy)
    /\ Len(VaultsOfRisk(riskLevel)) > 0

getMockVaults(riskLevel, minApy) ==
    IF Truthy(minApy)
    THEN LET Keep(vault) == ApyAtLeast(vault, minApy)
         IN  SelectSeq(VaultsOfRisk(riskLevel), Keep)
    ELSE VaultsOfRisk(riskLevel)

\* getMockVaultDetails: mockVaults.find(vault => vault.address ===
\* vaultAddress) || mockVaults[0]
getMockVaultDetails(vaultAddress) ==
    LET Hit(vault) == vaultAddress.t = "string" /\ vault.address = vaultAddress.s
        found == SelectSeq(mockVaults, Hit)
    IN  IF Len(found) > 0 THEN found[1] ELSE mockVaults[1]

\* a faulty variant of the multiplier: six months count as a quarter
ApyMultiplierShort(timeframe) ==
    IF timeframe = Str("1y") THEN 4 ELSE 1

\* apyMultiplier of getMockDepositCalculation, in quarters: 1 for '1y',
\* 0.5 for '6m', 0.25 for anything else
ApyMultiplier(timeframe) ==
    IF timeframe = Str("1y") THEN 4 ELSE IF timeframe = Str("6m") THEN 2 ELSE 1

\* getMockDepositCalculation; the caller has checked that depositAmount
\* converts to a primitive.  The computed amounts are kept exact, in
\* quarters of a millionth (hundredths of depositAmount times hundredths
\* of a percentage times quarters); every one is NaN when depositAmount is
\* no number.
getMockDepositCalculation(vaultAddress, depositAmount, timeframe) ==
    LET vault == getMockVaultDetails(vaultAddress)
        amount == ParseFloat(depositAmount)
        apy == ParseFloatStr(vault.apy).u
        managementFee == ParseFloatStr(vault.feeStructure.managementFee).u
        performanceFee == ParseFloatStr(vault.feeStructure.performanceFee).u
        N(q) == IF amount.nan THEN NaN ELSE Num(q)
    IN  [calculation |->
           [vaultAddress |-> vaultAddress,
            depositAmount |-> depositAmount,
            timeframe |-> timeframe,
            expectedShares |-> N(amount.u * 38000),
            projectedValue |-> N(amount.u * 40000 + amount.u * apy * ApyMultiplier(timeframe)),
            projectedYield |-> N(amount.u * apy * ApyMultiplier(timeframe)),
            fees |->
              [depositFee |-> "0",
               managementFee |-> N(amount.u * managementFee * 4),
               performanceFee |-> N(amount.u * (apy \div 5) * (performanceFee \div 500))]]]

\* one entry of the allocations array of getMockOptimization: percent of
\* the total in the vault mockVaults[v]; the amount is
\* (parseFloat(totalAmount) * percent / 100).toString()
Allocation(v, percent, totalAmount) ==
    [vaultAddress |-> mockVaults[v].address,
     vaultName |-> mockVaults[v].name,
     allocation |-> percent,
     amount |-> Scale(ParseFloat(totalAmount), ParseFloatStr(percent).u \div Unit, 100),
     expectedApy |-> mockVaults[v].apy,
     riskLevel |-> mockVaults[v].riskLevel]

\* a faulty variant of the allocations: the aggressive branch gives 40
\* percent to the third vault
mockAllocationsOverweight(totalAmount, riskTolerance) ==
    IF riskTolerance = Str("conservative")
    THEN << Allocation(1, "70", totalAmount), Allocation(2, "30", totalAmount) >>
    ELSE IF riskTolerance = Str("moderate")
    THEN << Allocation(1, "50", totalAmount), Allocation(2, "50", totalAmount) >>
    ELSE << Allocation(1, "30", totalAmount), Allocation(2, "40", totalAmount),
            Allocation(3, "40", totalAmount) >>

\* a faulty variant of the allocations: three vaults only for
\* "aggressive", every other value is planned like moderate
mockAllocationsNamedOnly(totalAmount, riskTolerance) ==
    IF riskTolerance = Str("conservative")
    THEN << Allocation(1, "70", totalAmount), Allocation(2, "30", totalAmount) >>
    ELSE IF riskTolerance = Str("aggressive")
    THEN << Allocation(1, "30", totalAmount), Allocation(2, "40", totalAmount),
            Allocation(3, "30", totalAmount) >>
    ELSE << Allocation(1, "50", totalAmount), Allocation(2, "50", totalAmount) >>

\* the if / else if / else of getMockOptimization: strict equality with
\* the two names, everything else takes the last branch
mockAllocations(totalAmount, riskTolerance) ==
    IF riskTolerance = Str("conservative")
    THEN << Allocation(1, "70", totalAmount), Allocation(2, "30", totalAmount) >>
    ELSE IF riskTolerance = Str("moderate")
    THEN << Allocation(1, "50", totalAmount), Allocation(2, "50", totalAmount) >>
    ELSE << Allocation(1, "30", totalAmount), Allocation(2, "40", totalAmount),
            Allocation(3, "30", totalAmount) >>

\* a faulty variant of the reduce: only the first allocation is counted
WeightedApySumFirstOnly(allocations, i) ==
    ParseFloatStr(allocations[1].allocation).u * ParseFloatStr(allocations[1].expectedApy).u

RECURSIVE WeightedApySum(_, _)
\* allocations.reduce((sum, a) => sum + parseFloat(a.allocation) / 100 *
\* parseFloat(a.expectedApy), 0), in millionths
WeightedApySum(allocations, i) ==
    IF i > Len(allocations) THEN 0
    ELSE ParseFloatStr(allocations[i].allocation).u * ParseFloatStr(allocations[i].expectedApy).u
           + WeightedApySum(allocations, i + 1)

\* the caller has checked that totalAmount converts to a primitive;
\* expectedPortfolioApy is the sum .toFixed(2), kept in hundredths
getMockOptimization(totalAmount, riskTolerance, timeHorizon) ==
    LET allocations == mockAllocations(totalAmount, riskTolerance)
    IN  [optimization |->
           [totalAmount |-> totalAmount,
            riskTolerance |-> riskTolerance,
            timeHorizon |-> timeHorizon,
            recommendedAllocation |-> allocations,
            expectedPortfolioApy |->
              [fixed2 |-> TRUE, n |-> Num(RoundDiv(WeightedApySum(allocations, 1), 100 * Unit))],
            diversificationScore |-> "85"]]

defindexMockUserPositions ==
    << [vaultAddress |-> "CBQHNAXSI55GX2GN6D67GK7BHKQKQHX4J5DYKEN6PKVP7DTCMMY7XAQD",
        vaultName |-> "Stellar Stable Yield Vault",
        shares |-> "5000.0000000", underlyingValue |-> "5200.0000000",
        entryPrice |-> "1.0000000", currentPrice |-> "1.0400000",
        pnl |-> "200.0000000", pnlPercent |-> "4.0",
        depositedAt |-> "2024-01-01T00:00:00Z"],
       [vaultAddress |-> "CDLZFC3SYJYDZT7K67VZ75HPJVIEUVNIXF47ZG2FB2RMQQAHHAGHJMUOB",
        vaultName |-> "Balanced Growth Vault",
        shares |-> "4500.0000000", underlyingValue |-> "4800.0000000",
        entryPrice |-> "1.0000000", currentPrice |-> "1.0667000",
        pnl |-> "300.0000000", pnlPercent |-> "6.67",
        depositedAt |-> "2024-01-15T00:00:00Z"] >>

(***************************************************************************)
(* The backends.  An answer is named by a label; the operators below give  *)
(* the data it stands for.  "reject" is a network error or a non-2xx       *)
(* status; the expiry of the HTTP client's timeout is a step of its own.   *)
(*   list answers:  "empty"   { <list>: [] }                               *)
(*                  "live"    { <list>: [a complete record] }              *)
(*                  "partial" { <list>: [a record lacking optional or      *)
(*                              numeric fields] }                          *)
(*                  "nolist"  {}                                           *)
(*                  "badlist" { <list>: a truthy value that is no array }  *)
(*                  "nobody"  no body: response.data is undefined          *)
(***************************************************************************)
ListAnswers == { "empty", "live", "partial", "nolist", "badlist", "nobody" }
QuoteAnswers == { "quote", "nobody" }
\* Horizon accounts: which balances the account holds
AccountAnswers == { "native", "native+lp", "native+credit", "lp+credit", "nobalances" }
\* POST /api/optimize: a body with a plan, or no body
PlanAnswers == { "plan", "nobody" }

livePair ==
    [pairAddress |-> "CLIVEPAIRADDRESS", token0 |-> XLM, token1 |-> USDC,
     reserve0 |-> "5000.0000000", reserve1 |-> "600.000000",
     totalSupply |-> "1732.0500000", fee |-> "0.3",
     volume24h |-> "1000", tvl |-> "90000", apr |-> "9.1"]

\* the optional fields volume24h, tvl and apr are absent
partialPair ==
    [pairAddress |-> "CLIVEPAIRADDRESS", token0 |-> XLM, token1 |-> AQUA,
     reserve0 |-> "5000.0000000", reserve1 |-> "600.000000",
     totalSupply |-> "1732.0500000", fee |-> "0.3"]

liveQuote ==
    [tokenIn |-> XLM, tokenOut |-> USDC, amountIn |-> "1000",
     amountOut |-> "118.900000", priceImpact |-> "0.3",
     route |-> <<"native", "CMID", "CAQC">>, slippage |-> "0.5", fee |-> "0.3",
     minimumReceived |-> "118.305500"]

liveVault ==
    [address |-> "CLIVEVAULTADDRESS", name |-> "Live Vault", symbol |-> "LV",
     totalAssets |-> "750000.0000000", totalSupply |-> "700000.0000000",
     apy |-> "12.1", strategy |-> "Live Strategy", riskLevel |-> "medium",
     underlyingTokens |-> <<"XLM">>, underlyingProtocols |-> <<"Soroswap">>,
     feeStructure |-> [managementFee |-> "1.0", performanceFee |-> "10.0"],
     performance |-> ("7d" :> "0.2" @@ "30d" :> "0.9" @@ "90d" :> "3.0" @@ "1y" :> "12.1")]

partialVault ==
    [address |-> "CLIVEVAULTADDRESS", name |-> "Live Vault", apy |-> "12.1",
     riskLevel |-> "medium"]

\* the body of a successful POST /api/vault/calculate
liveCalculation ==
    [calculation |->
       [vaultAddress |-> "CLIVEVAULTADDRESS", depositAmount |-> "100", timeframe |-> "1y",
        expectedShares |-> "96.5", projectedValue |-> "112.1", projectedYield |-> "12.1"]]

\* the body of a successful POST /api/optimize
livePlan ==
    [optimization |->
       [totalAmount |-> "1000", riskTolerance |-> "moderate", timeHorizon |-> "1y",
        recommendedAllocation |->
          << [vaultAddress |-> "CLIVEVAULTADDRESS", vaultName |-> "Live Vault",
              allocation |-> "100", amount |-> "1000", expectedApy |-> "12.1",
              riskLevel |-> "medium"] >>,
        expectedPortfolioApy |-> "12.10",
        diversificationScore |-> "10"]]

livePosition ==
    [vaultAddress |-> "CLIVEVAULTADDRESS", vaultName |-> "Live Vault",
     shares |-> "1400.0000000", underlyingValue |-> "1500.0000000",
     entryPrice |-> "1.1000000", currentPrice |-> "1.0700000",
     pnl |-> "-50.0000000", pnlPercent |-> "-3.2",
     depositedAt |-> "2025-03-01T00:00:00Z"]

partialPosition ==
    [vaultAddress |-> "CLIVEVAULTADDRESS", shares |-> "1400.0000000"]

\* response.data.<list> || [] for an answer with a body
ListOf(ans, live, partial) ==
    CASE ans = "live" -> Arr(<<live>>)
      [] ans = "partial" -> Arr(<<partial>>)
      [] ans = "badlist" -> NotArr
      [] OTHER -> Arr(<<>>)

balNative == [asset_type |-> "native", balance |-> "25.5000000"]
balShares ==
    [asset_type |-> "liquidity_pool_shares", liquidity_pool_id |-> "POOL1",
     balance |-> "40.0000000"]
balCredit ==
    [asset_type |-> "credit_alphanum4", asset_code |-> "USDC",
     asset_issuer |-> "GISSUER", balance |-> "1500.0000000"]

\* account.balances
BalancesOf(ans) ==
    CASE ans = "native" -> <<balNative>>
      [] ans = "native+lp" -> <<balNative, balShares>>
      [] ans = "native+credit" -> <<balNative, balCredit>>
      [] ans = "lp+credit" -> <<balShares, balCredit>>
      [] OTHER -> <<>>

RECURSIVE MapSeq(_, _, _)
\* seq.map(F) for F given as an operator
MapSeq(F(_), seq, i) ==
    IF i > Len(seq) THEN <<>> ELSE <<F(seq[i])>> \o MapSeq(F, seq, i + 1)

(***************************************************************************)
(* One call of an adapter method.                                          *)
(*   method  the method called                                             *)
(*   params  its actual parameters                                         *)
(*   st      "idle" (not called), "api" (awaiting apiClient), "horizon"    *)
(*           (awaiting horizonClient.loadAccount), "done" (settled)        *)
(*   tiers   the tiers entered so far, in order                            *)
(*   heard   what each outbound call settled with, in order (history)      *)
(*   out     how the returned promise settled                              *)
(***************************************************************************)
Fulfil(v) == [ok |-> TRUE, val |-> v, msg |-> ""]
Reject(m) == [ok |-> FALSE, val |-> NoValue, msg |-> m]
Pending == [ok |-> TRUE, val |-> NoValue, msg |-> "<pending>"]

IdleOp ==
    [method |-> "", params |-> <<>>, st |-> "idle", tiers |-> <<>>, heard |-> <<>>,
     out |-> Pending]

\* the method is entered and issues its first outbound call
StartOp(method, params, first) ==
    [method |-> method, params |-> params, st |-> first, tiers |-> <<first>>,
     heard |-> <<>>, out |-> Pending]

\* the awaited call answered and the method returns
Done(op, out) == [op EXCEPT !.st = "done", !.out = out]

\* the catch block runs the mock generator and returns (or throws) its result
ToMock(op, out) == [op EXCEPT !.st = "done", !.tiers = @ \o <<"mock">>, !.out = out]

\* the catch block of DefindexClient.getUserPositions awaits loadAccount
ToHorizon(op) == [op EXCEPT !.st = "horizon", !.tiers = @ \o <<"horizon">>]

\* apiClient.get rejects: a network error, a non-2xx status, the timeout
ApiFailed(ans) == ans \in { "reject", "timeout" }

\* a faulty variant of SoroswapClient.getTokenPairs: a failed request is
\* issued a second time before the mock pairs are used
getTokenPairsRetries(op, ans) ==
    IF ApiFailed(ans) \/ ans = "nobody"
    THEN IF Len(op.tiers) < 2
         THEN [op EXCEPT !.tiers = @ \o <<"api">>]
         ELSE ToMock(op, Fulfil(Arr(getMockTokenPairs(op.params.token))))
    ELSE Done(op, Fulfil(ListOf(ans, livePair, partialPair)))

\* SoroswapClient.getTokenPairs after apiClient.get settled with ans
getTokenPairs(op, ans) ==
    IF ApiFailed(ans) \/ ans = "nobody"
    THEN ToMock(op, Fulfil(Arr(getMockTokenPairs(op.params.token))))
    ELSE Done(op, Fulfil(ListOf(ans, livePair, partialPair)))

\* SoroswapClient.getLiquidityPools after apiClient.get settled with ans
getLiquidityPools(op, ans) ==
    IF ApiFailed(ans) \/ ans = "nobody"
    THEN ToMock(op, Fulfil(Arr(getMockLiquidityPools(op.params.pairAddress))))
    ELSE Done(op, Fulfil(ListOf(ans, livePair, partialPair)))

\* SoroswapClient.getSwapQuote after apiClient.get settled with ans
getSwapQuote(op, ans) ==
    IF ApiFailed(ans)
    THEN IF ToPrimitiveThrows(op.params.amountIn) \/ ToPrimitiveThrows(op.params.slippage)
         THEN ToMock(op, Reject(NoPrimMessage))
         ELSE ToMock(op, Fulfil(Obj(getMockSwapQuote(op.params.tokenIn, op.params.tokenOut,
                                                     op.params.amountIn, op.params.slippage))))
    ELSE Done(op, IF ans = "quote" THEN Fulfil(Obj(liveQuote)) ELSE Fulfil(NoValue))

\* a faulty variant of DefindexClient.getAvailableVaults: the fallback
\* returns vault summaries, without the fields past the yield
getAvailableVaultsThinFallback(op, ans) ==
    IF ApiFailed(ans) \/ ans = "nobody"
    THEN ToMock(op, Fulfil(Arr(<<partialVault>>)))
    ELSE Done(op, Fulfil(ListOf(ans, liveVault, partialVault)))

\* DefindexClient.getAvailableVaults after apiClient.get settled with ans
getAvailableVaults(op, ans) ==
    IF ApiFailed(ans) \/ ans = "nobody"
    THEN IF getMockVaultsThrows(op.params.riskLevel, op.params.minApy)
         THEN ToMock(op, Reject(NoPrimMessage))
         ELSE ToMock(op, Fulfil(Arr(getMockVaults(op.params.riskLevel, op.params.minApy))))
    ELSE Done(op, Fulfil(ListOf(ans, liveVault, partialVault)))

\* a faulty variant of DefindexClient.getVaultDetails: an address that is
\* not in the catalog is an error
getVaultDetailsOrThrow(op, ans) ==
    IF ApiFailed(ans)
    THEN IF \E i \in DOMAIN mockVaults : Str(mockVaults[i].address) = op.params.vaultAddress
         THEN ToMock(op, Fulfil(Obj(getMockVaultDetails(op.params.vaultAddress))))
         ELSE ToMock(op, Reject("Vault not found"))
    ELSE Done(op, IF ans = "vault" THEN Fulfil(Obj(liveVault)) ELSE Fulfil(NoValue))

\* DefindexClient.getVaultDetails after apiClient.get settled with ans; the
\* body of a successful response is returned as it is
getVaultDetails(op, ans) ==
    IF ApiFailed(ans)
    THEN ToMock(op, Fulfil(Obj(getMockVaultDetails(op.params.vaultAddress))))
    ELSE Done(op, IF ans = "vault" THEN Fulfil(Obj(liveVault)) ELSE Fulfil(NoValue))

\* DefindexClient.calculateVaultDeposit after apiClient.post settled with
\* ans; the body of a successful response is returned as it is
calculateVaultDeposit(op, ans) ==
    IF ApiFailed(ans)
    THEN IF ToPrimitiveThrows(op.params.depositAmount)
         THEN ToMock(op, Reject(NoPrimMessage))
         ELSE ToMock(op, Fulfil(Obj(getMockDepositCalculation(op.params.vaultAddress,
                                                              op.params.depositAmount,
                                                              op.params.timeframe))))
    ELSE Done(op, IF ans = "calc" THEN Fulfil(Obj(liveCalculation)) ELSE Fulfil(NoValue))

\* DefindexClient.optimizeYieldAllocation after apiClient.post settled with
\* ans
optimizeYieldAllocation(op, ans) ==
    IF ApiFailed(ans)
    THEN IF ToPrimitiveThrows(op.params.totalAmount)
         THEN ToMock(op, Reject(NoPrimMessage))
         ELSE ToMock(op, Fulfil(Obj(getMockOptimization(op.params.totalAmount,
                                                        op.params.riskTolerance,
                                                        op.params.timeHorizon))))
    ELSE Done(op, IF ans = "plan" THEN Fulfil(Obj(livePlan)) ELSE Fulfil(NoValue))

\* lpPositions.map(...) of SoroswapClient.getUserPositions
LpPosition(b) == [pairAddress |-> b.liquidity_pool_id, lpTokenBalance |-> b.balance]

IsLpShare(b) == b.asset_type = "liquidity_pool_shares"

\* SoroswapClient.getUserPositions after loadAccount settled with ans
soroswapGetUserPositions(op, ans) ==
    IF ans \in { "reject", "nobalances" }
    THEN ToMock(op, Fulfil(Arr(soroswapMockUserPositions)))
    ELSE Done(op, Fulfil(Arr(MapSeq(LpPosition, SelectSeq(BalancesOf(ans), IsLpShare), 1))))

\* vaultPositions.map(...) of DefindexClient.getUserPositions
VaultStandIn(b) ==
    [vaultAddress |-> OrElse(Get(b, "asset_issuer"), Str("unknown")).s,
     vaultName |-> b.asset_code \o " Vault",
     shares |-> b.balance,
     underlyingValue |-> b.balance,
     entryPrice |-> "1.0", currentPrice |-> "1.0",
     pnl |-> "0", pnlPercent |-> "0",
     depositedAt |-> NowISO]

IsCredit(b) == b.asset_type \in { "credit_alphanum4", "credit_alphanum12" }

\* a faulty variant of DefindexClient.getUserPositions: a failed vault
\* query goes to the mock positions and the ledger is never asked
defindexGetUserPositionsApiSkipsLedger(op, ans) ==
    IF ApiFailed(ans) \/ ans = "nobody"
    THEN ToMock(op, Fulfil(Arr(defindexMockUserPositions)))
    ELSE Done(op, Fulfil(ListOf(ans, livePosition, partialPosition)))

\* DefindexClient.getUserPositions after apiClient.get settled with ans
defindexGetUserPositionsApi(op, ans) ==
    IF ApiFailed(ans) \/ ans = "nobody"
    THEN ToHorizon(op)
    ELSE Done(op, Fulfil(ListOf(ans, livePosition, partialPosition)))

\* DefindexClient.getUserPositions after loadAccount settled with ans
defindexGetUserPositionsHorizon(op, ans) ==
    IF ans \in { "reject", "nobalances" }
    THEN ToMock(op, Fulfil(Arr(defindexMockUserPositions)))
    ELSE Done(op, Fulfil(Arr(MapSeq(VaultStandIn, SelectSeq(BalancesOf(ans), IsCredit), 1))))

\* the method of adapter a continues after its HTTP call settled
AfterApi(a, op, ans) ==
    CASE op.method = "getTokenPairs" -> getTokenPairs(op, ans)
      [] op.method = "getSwapQuote" -> getSwapQuote(op, ans)
      [] op.method = "getAvailableVaults" -> getAvailableVaults(op, ans)
      [] op.method = "getUserPositions" -> defindexGetUserPositionsApi(op, ans)
      [] op.method = "optimizeYieldAllocation" -> optimizeYieldAllocation(op, ans)
      [] op.method = "getLiquidityPools" -> getLiquidityPools(op, ans)
      [] op.method = "getVaultDetails" -> getVaultDetails(op, ans)
      [] op.method = "calculateVaultDeposit" -> calculateVaultDeposit(op, ans)

\* the method of adapter a continues after loadAccount settled
AfterHorizon(a, op, ans) ==
    IF a = "soroswap"
    THEN soroswapGetUserPositions(op, ans)
    ELSE defindexGetUserPositionsHorizon(op, ans)

\* the outbound call of op settled with ans (history only)
Heard(op, ans) == [op EXCEPT !.heard = @ \o <<ans>>]

\* the answers the HTTP backend can give to a method
ApiAnswers(method) ==
    IF method = "getSwapQuote" THEN QuoteAnswers \cup { "reject" }
    ELSE IF method = "optimizeYieldAllocation" THEN PlanAnswers \cup { "reject" }
    ELSE IF method = "getVaultDetails" THEN { "vault", "nobody", "reject" }
    ELSE IF method = "calculateVaultDeposit" THEN { "calc", "nobody", "reject" }
    ELSE ListAnswers \cup { "reject" }

(***************************************************************************)
(* The text of a tool result.  JSON.stringify(doc) is kept as the document *)
(* it encodes, with the keys whose value is undefined left out at the top  *)
(* level (a nested value Undef stands for a key that is left out); a       *)
(* template string is kept as the string.                                  *)
(***************************************************************************)
JSONText(doc) == [fmt |-> "json", doc |-> doc, str |-> ""]
PlainText(str) == [fmt |-> "plain", doc |-> <<>>, str |-> str]

\* JSON.parse(text) succeeds.  A template string "Error: ..." starts with
\* the letter E and is no JSON document.
ParsesAsJSON(text) == text.fmt = "json"

\* process.env.STELLAR_NETWORK || 'testnet'
NetworkOf(e) == OrElse(e, Str("testnet")).s

FallbackNote == "Using mock data due to API unavailability"

\* a faulty variant of the catch block: the fallback note is left out
ErrorEnvelopeNoFallback(what, details) ==
    JSONText([error |-> what, details |-> details])

\* the catch block of a handler method
ErrorEnvelope(what, details) ==
    JSONText([error |-> what, details |-> details, fallback |-> FallbackNote])

\* A handler method either returns a text or throws.
Returns(text) == [thrown |-> FALSE, text |-> text, msg |-> ""]
Throws(msg) == [thrown |-> TRUE, text |-> PlainText(""), msg |-> msg]

\* parseFloat(pair.tvl || '0')
PairTvl(pair) == ParseFloat(OrElse(Get(pair, "tvl"), Str("0")))

\* getSoroswapTokenPairs, from the settled adapter call on
getSoroswapTokenPairs(out, e) ==
    IF ~out.ok
    THEN Returns(ErrorEnvelope("Failed to fetch Soroswap token pairs", out.msg))
    ELSE IF out.val.kind # "array"
    THEN Returns(ErrorEnvelope("Failed to fetch Soroswap token pairs",
                               "pairs.reduce is not a function"))
    ELSE Returns(JSONText(
           [pairs |-> out.val.items,
            total |-> Len(out.val.items),
            totalTvl |-> SumSeq(MapSeq(PairTvl, out.val.items, 1), 1),
            network |-> NetworkOf(e),
            timestamp |-> NowISO]))

\* getSoroswapSwapQuote, from the settled adapter call on
getSoroswapSwapQuote(out, e) ==
    IF ~out.ok
    THEN Returns(ErrorEnvelope("Failed to fetch Soroswap swap quote", out.msg))
    ELSE IF out.val.kind = "undefined"
    THEN Returns(JSONText([network |-> NetworkOf(e), timestamp |-> NowISO]))
    ELSE Returns(JSONText(
           [quote |-> out.val.obj, network |-> NetworkOf(e), timestamp |-> NowISO]))

\* the mockPools literal of getSoroswapLiquidityPools
serverMockPools ==
    << [address |-> "0x123...abc", token0 |-> "XLM", token1 |-> "USDC",
        reserve0 |-> "1000000", reserve1 |-> "500000", totalSupply |-> "707106",
        apr |-> "12.5", volume24h |-> "125000", fees24h |-> "375"],
       [address |-> "0x456...def", token0 |-> "XLM", token1 |-> "AQUA",
        reserve0 |-> "800000", reserve1 |-> "200000", totalSupply |-> "400000",
        apr |-> "18.2", volume24h |-> "85000", fees24h |-> "255"] >>

PoolsMessage == "Mock data - In production, this would fetch from Soroswap contracts"

\* getSoroswapLiquidityPools: no adapter call
getSoroswapLiquidityPools(pairAddress) ==
    IF ~Truthy(pairAddress)
    THEN Returns(JSONText([pools |-> Arr(serverMockPools), message |-> PoolsMessage]))
    ELSE LET Hit(pool) == pairAddress.t = "string" /\ pool.address = pairAddress.s
             found == SelectSeq(serverMockPools, Hit)
         IN  IF Len(found) > 0
             THEN Returns(JSONText([pools |-> Obj(found[1]), message |-> PoolsMessage]))
             ELSE Returns(JSONText([message |-> PoolsMessage]))

\* mockPrices[tokenAddress] || 0, in hundredths
serverMockPrice(key) ==
    CASE key = "XLM" -> Num(12)
      [] key = "USDC" -> Num(100)
      [] key = "AQUA" -> Num(8)
      [] OTHER -> Num(0)

PriceMessage == "Mock data - In production, this would fetch from price oracles"

\* getSoroswapTokenPrice: no adapter call
getSoroswapTokenPrice(tokenAddress, baseCurrency) ==
    IF ToPrimitiveThrows(tokenAddress)
    THEN Throws(NoPrimMessage)
    ELSE LET body == [price |-> serverMockPrice(tokenAddress.s),
                      baseCurrency |-> baseCurrency,
                      change24h |-> "2.5", volume24h |-> "125000",
                      timestamp |-> NowISO, message |-> PriceMessage]
         IN  IF tokenAddress.t = "undefined"
             THEN Returns(JSONText(body))
             ELSE Returns(JSONText([token |-> tokenAddress] @@ body))

\* getDefindexVaults, from the settled adapter call on
VaultAssets(vault) == ParseFloat(Get(vault, "totalAssets"))

getDefindexVaults(out, e) ==
    IF ~out.ok
    THEN Returns(ErrorEnvelope("Failed to fetch DeFindex vaults", out.msg))
    ELSE IF out.val.kind # "array"
    THEN Returns(ErrorEnvelope("Failed to fetch DeFindex vaults",
                               "vaults.reduce is not a function"))
    ELSE Returns(JSONText(
           [vaults |-> out.val.items,
            total |-> Len(out.val.items),
            totalTvl |-> SumSeq(MapSeq(VaultAssets, out.val.items, 1), 1),
            network |-> NetworkOf(e),
            timestamp |-> NowISO]))

VaultMessage == "Mock data - In production, this would fetch from DeFindex vault contract"

\* getDefindexVaultDetails: no adapter call
getDefindexVaultDetails(vaultAddress) ==
    Returns(JSONText(
      [vault |->
         [address |-> vaultAddress, name |-> "Stable Yield Vault", symbol |-> "SYV",
          totalAssets |-> "1000000", totalSupply |-> "950000", apy |-> "8.5",
          strategy |-> "USDC-XLM Liquidity Mining", riskLevel |-> "low",
          underlyingTokens |-> <<"USDC", "XLM">>,
          underlyingProtocols |-> <<"Soroswap">>,
          feeStructure |-> [managementFee |-> "1.0", performanceFee |-> "10.0"],
          performance |-> ("7d" :> "0.15" @@ "30d" :> "0.68" @@ "90d" :> "2.1" @@ "1y" :> "8.5")],
       message |-> VaultMessage]))

OptimizeMessage == "Mock data - In production, this would use advanced optimization algorithms"

\* optimizeDefindexAllocation: no adapter call
optimizeDefindexAllocation(totalAmount, riskTolerance, timeHorizon) ==
    IF ToPrimitiveThrows(totalAmount)
    THEN Throws(NoPrimMessage)
    ELSE LET conservative == riskTolerance = Str("conservative")
             amount == ParseFloat(totalAmount)
         IN  Returns(JSONText(
               [optimization |->
                  [totalAmount |-> totalAmount,
                   riskTolerance |-> riskTolerance,
                   timeHorizon |-> timeHorizon,
                   recommendedAllocation |->
                     << [vaultAddress |-> "0xabc123...",
                         vaultName |-> "Stable Yield Vault",
                         allocation |-> IF conservative THEN "70" ELSE "50",
                         amount |-> IF conservative THEN Scale(amount, 7, 10)
                                                    ELSE Scale(amount, 5, 10),
                         expectedApy |-> "8.5", riskLevel |-> "low"],
                        [vaultAddress |-> "0xdef456...",
                         vaultName |-> "Balanced Growth Vault",
                         allocation |-> IF conservative THEN "30" ELSE "50",
                         amount |-> IF conservative THEN Scale(amount, 3, 10)
                                                    ELSE Scale(amount, 5, 10),
                         expectedApy |-> "15.2", riskLevel |-> "medium"] >>,
                   expectedPortfolioApy |-> IF conservative THEN "10.51" ELSE "11.85",
                   diversificationScore |-> "85"],
                message |-> OptimizeMessage]))

\* parseFloat(pos.value || '0') and parseFloat(pos.pnl || '0')
SwapValue(pos) == ParseFloat(OrElse(Get(pos, "value"), Str("0")))
SwapPnl(pos) == ParseFloat(OrElse(Get(pos, "pnl"), Str("0")))
\* parseFloat(pos.underlyingValue) and parseFloat(pos.pnl)
VaultValue(pos) == ParseFloat(Get(pos, "underlyingValue"))
VaultPnl(pos) == ParseFloat(Get(pos, "pnl"))

\* n / d rounded to the nearest integer, halves away from zero (d > 0)
SignedRoundDiv(n, d) == IF n >= 0 THEN RoundDiv(n, d) ELSE 0 - RoundDiv(0 - n, d)

\* a faulty variant of the percentage: the digits after the second decimal
\* are cut off
PnlPercentTruncated(totalPnl, totalValue) ==
    IF ~totalValue.nan /\ totalValue.u > 0
    THEN [fixed2 |-> TRUE,
          n |-> IF totalPnl.nan THEN NaN
                ELSE Num((totalPnl.u * 100 * Unit) \div totalValue.u)]
    ELSE [fixed2 |-> FALSE, n |-> Num(0)]

\* totalValue > 0 ? (totalPnl / totalValue * 100).toFixed(2) : '0'
\* fixed2 tells the toFixed(2) branch from the literal '0'
PnlPercent(totalPnl, totalValue) ==
    IF ~totalValue.nan /\ totalValue.u > 0
    THEN [fixed2 |-> TRUE,
          n |-> IF totalPnl.nan THEN NaN
                ELSE Num(SignedRoundDiv(totalPnl.u * 100 * Unit, totalValue.u))]
    ELSE [fixed2 |-> FALSE, n |-> Num(0)]

Recommendations ==
    << [type |-> "rebalancing",
        description |-> "Consider rebalancing towards more DeFindex positions for better yield",
        impact |-> "Potential 2.5% APY increase"],
       [type |-> "diversification",
        description |-> "Add exposure to high-yield DeFindex vault for better returns",
        impact |-> "Improved risk-adjusted returns"] >>

CombinedFailure == "Failed to fetch combined portfolio analysis"

\* getCombinedPortfolioAnalysis, from the join of Promise.all on: sOut and
\* dOut are the settled calls of the two getUserPositions methods
getCombinedPortfolioAnalysis(sOut, dOut, userAddress, includeRecommendations, e) ==
    IF ~sOut.ok
    THEN Returns(ErrorEnvelope(CombinedFailure, sOut.msg))
    ELSE IF ~dOut.ok
    THEN Returns(ErrorEnvelope(CombinedFailure, dOut.msg))
    ELSE IF sOut.val.kind # "array"
    THEN Returns(ErrorEnvelope(CombinedFailure, "soroswapPositions.reduce is not a function"))
    ELSE IF dOut.val.kind # "array"
    THEN Returns(ErrorEnvelope(CombinedFailure, "defindexPositions.reduce is not a function"))
    ELSE LET sPos == sOut.val.items
             dPos == dOut.val.items
             soroswapValue == SumSeq(MapSeq(SwapValue, sPos, 1), 1)
             defindexValue == SumSeq(MapSeq(VaultValue, dPos, 1), 1)
             totalValue == Add(soroswapValue, defindexValue)
             soroswapPnl == SumSeq(MapSeq(SwapPnl, sPos, 1), 1)
             defindexPnl == SumSeq(MapSeq(VaultPnl, dPos, 1), 1)
             totalPnl == Add(soroswapPnl, defindexPnl)
             analysis ==
               [userAddress |-> userAddress,
                summary |-> [totalValue |-> totalValue,
                             soroswapValue |-> soroswapValue,
                             defindexValue |-> defindexValue,
                             totalPnl |-> totalPnl,
                             totalPnlPercent |-> PnlPercent(totalPnl, totalValue)],
                soroswapPositions |-> sPos,
                defindexPositions |-> dPos,
                riskMetrics |-> [portfolioRisk |-> "medium",
                                 diversificationScore |-> "78",
                                 concentrationRisk |-> "low"]]
         IN  Returns(JSONText(
               [analysis |-> IF includeRecommendations
                             THEN analysis @@ [recommendations |-> Recommendations]
                             ELSE analysis,
                network |-> NetworkOf(e),
                timestamp |-> NowISO]))

(***************************************************************************)
(* The CallTool handler.                                                   *)
(***************************************************************************)
\* return { content: [{ type: 'text', text }] }: isError is left out,
\* which the protocol reads as false
Success(text) == [text |-> text, isError |-> FALSE]

\* the catch block of the CallTool handler
Failure(msg) == [text |-> PlainText("Error: " \o msg), isError |-> TRUE]

\* a faulty variant of the default case: the unknown name is answered like
\* a success
UnknownToolFallsThrough(n) == Success(JSONText([message |-> "Unknown tool: " \o n]))

\* the default case of the switch
UnknownTool(n) == Failure("Unknown tool: " \o n)

\* what the handler answers once its handler method returned or threw
Answer(h) == IF h.thrown THEN Failure(h.msg) ELSE Success(h.text)

NoResult == [text |-> PlainText(""), isError |-> FALSE]

\* the cases whose handler method awaits no adapter
InlineTools ==
    { "soroswap_get_liquidity_pools", "soroswap_get_token_price",
      "defindex_get_vault_details", "defindex_optimize_allocation" }

\* the cases whose handler method awaits one adapter method
AdapterTools ==
    { "soroswap_get_token_pairs", "soroswap_get_swap_quote", "defindex_get_vaults" }

\* argument values a caller may send for a string parameter
AddressValues == { Undef, Str(""), Str("XLM"), Str("native"), Str("0x123...abc"), NoPrimObj }
AmountValues == { Undef, Str("1000"), Str("10000"), Str("abc"), NoPrimObj }
\* amountIn of a swap quote: down to one stroop
QuoteAmountValues ==
    { Undef, Str("0"), Str("0.0000001"), Str("0.0000002"), Str("0.01"),
      Str("1000"), Str("10000"), Str("abc"), NoPrimObj }
SlippageValues == { Undef, Str(""), Str("1"), Str("100"), NoPrimObj }

\* token filters: none, symbols, an address, a symbol in another case, a
\* symbol of no pair
TokenValues == { Undef, Str("XLM"), Str("AQUA"), Str("native"), Str("xlm"), Str("ZZZ") }

\* the argument mappings of the model, by operation: only the keys the
\* case reads (args?.key is undefined for every other key)
ArgsOf(n) ==
    CASE n = "soroswap_get_token_pairs" ->
           [token : TokenValues]
      [] n = "soroswap_get_swap_quote" ->
           [tokenIn : { Str("native") }, tokenOut : { Str("USDC-ADDR") },
            amountIn : QuoteAmountValues, slippage : SlippageValues]
      [] n = "soroswap_get_liquidity_pools" ->
           [pairAddress : AddressValues]
      [] n = "soroswap_get_token_price" ->
           [tokenAddress : AddressValues, baseCurrency : { Undef, Str(""), Str("XLM") }]
      [] n = "defindex_get_vaults" ->
           [riskLevel : { Undef, Str("high"), Str("none") },
            minApy : { Undef, Str("10"), NoPrimObj }]
      [] n = "defindex_get_vault_details" ->
           [vaultAddress : AddressValues]
      [] n = "defindex_optimize_allocation" ->
           [totalAmount : AmountValues,
            riskTolerance : { Undef, Str("conservative"), Str("moderate"), Str("aggressive") },
            timeHorizon : { Undef, Str(""), Str("6m") }]
      [] n = "combined_portfolio_analysis" ->
           [userAddress : { Undef, Str("GUSER") },
            includeRecommendations : { Undef, JsTrue, JsFalse }]
      [] OTHER ->
           [token : { Undef, Str("XLM") }]

\* the handler method of an inline case
InlineHandler(n, a) ==
    CASE n = "soroswap_get_liquidity_pools" -> getSoroswapLiquidityPools(a.pairAddress)
      [] n = "soroswap_get_token_price" ->
           getSoroswapTokenPrice(a.tokenAddress, OrElse(a.baseCurrency, Str("USD")))
      [] n = "defindex_get_vault_details" -> getDefindexVaultDetails(a.vaultAddress)
      [] n = "defindex_optimize_allocation" ->
           optimizeDefindexAllocation(a.totalAmount, a.riskTolerance,
                                      OrElse(a.timeHorizon, Str("1y")))

\* the adapter a case calls, and the call it makes
AdapterOf(n) == IF n = "defindex_get_vaults" THEN "defindex" ELSE "soroswap"

AdapterCall(n, a) ==
    CASE n = "soroswap_get_token_pairs" ->
           StartOp("getTokenPairs", [token |-> a.token], "api")
      [] n = "soroswap_get_swap_quote" ->
           StartOp("getSwapQuote",
                   [tokenIn |-> a.tokenIn, tokenOut |-> a.tokenOut, amountIn |-> a.amountIn,
                    slippage |-> OrElse(a.slippage, Str("0.5"))], "api")
      [] n = "defindex_get_vaults" ->
           StartOp("getAvailableVaults", [riskLevel |-> a.riskLevel, minApy |-> a.minApy], "api")

\* the handler method of an adapter case, from the settled call on
AdapterHandler(n, out, e) ==
    CASE n = "soroswap_get_token_pairs" -> getSoroswapTokenPairs(out, e)
      [] n = "soroswap_get_swap_quote" -> getSoroswapSwapQuote(out, e)
      [] n = "defindex_get_vaults" -> getDefindexVaults(out, e)

(***************************************************************************)
(* State.                                                                  *)
(*   env     process.env.STELLAR_NETWORK                                   *)
(*   pc      "idle": the server waits for a request; "running": the        *)
(*           handler of the current request awaits an outbound call        *)
(*   name, args   the current request (the last one when idle)             *)
(*   ops     the adapter calls of the current request, by adapter          *)
(*   result  the result returned for the last request                      *)
(*   served  the number of requests answered                               *)
(*   listed  the answer to the last tools/list request, <<>> before the    *)
(*           first one                                                     *)
(***************************************************************************)
VARIABLES env, pc, name, args, ops, result, served, listed

vars == <<env, pc, name, args, ops, result, served, listed>>

Adapters == { "soroswap", "defindex" }

NoOps == [a \in Adapters |-> IdleOp]

Init ==
    /\ env \in EnvNetworks
    /\ pc = "idle"
    /\ name = ""
    /\ args = [token |-> Undef]
    /\ ops = NoOps
    /\ result = NoResult
    /\ served = 0
    /\ listed = <<>>

\* the request is accepted: CallToolRequestSchema handler entered
Accept(n, a) ==
    /\ pc = "idle"
    /\ served < MaxInvocations
    /\ name' = n
    /\ args' = a
    /\ UNCHANGED <<env, listed>>

\* a faulty variant of the return: the dispatcher keeps the result of the
\* request before and hands it out again
ReturnCached(r) ==
    /\ pc' = "idle"
    /\ result' = IF served > 0 /\ pc = "idle" THEN result ELSE r
    /\ served' = served + 1

\* the handler returns its result to the transport
Return(r) ==
    /\ pc' = "idle"
    /\ result' = r
    /\ served' = served + 1

\* the handler is suspended at an await
Suspend ==
    /\ pc' = "running"
    /\ result' = NoResult
    /\ UNCHANGED served

\* no case matches: default, throw, catch
InvokeUnknown(n, a) ==
    /\ n \notin SwitchCases
    /\ Accept(n, a)
    /\ ops' = NoOps
    /\ Return(UnknownTool(n))

\* a case whose handler method makes no outbound call
InvokeInline(n, a) ==
    /\ n \in InlineTools
    /\ Accept(n, a)
    /\ ops' = NoOps
    /\ Return(Answer(InlineHandler(n, a)))

\* a case whose handler method calls one adapter method, which issues its
\* HTTP request
InvokeAdapter(n, a) ==
    /\ n \in AdapterTools
    /\ Accept(n, a)
    /\ ops' = [NoOps EXCEPT ![AdapterOf(n)] = AdapterCall(n, a)]
    /\ Suspend

\* combined_portfolio_analysis: Promise.all over the two getUserPositions
\* calls, each run up to its first await
InvokeCombined(a) ==
    /\ Accept("combined_portfolio_analysis", a)
    /\ ops' = [soroswap |-> StartOp("getUserPositions", [userAddress |-> a.userAddress], "horizon"),
               defindex |-> StartOp("getUserPositions", [userAddress |-> a.userAddress], "api")]
    /\ Suspend

\* a faulty variant of the join: the combined analysis goes on as soon as
\* one of the two calls has settled
SettledWhenAnyDone(n, o) ==
    IF n = "combined_portfolio_analysis"
    THEN o["soroswap"].st = "done" \/ o["defindex"].st = "done"
    ELSE o[AdapterOf(n)].st = "done"

\* all adapter calls the handler method awaits have settled
Settled(n, o) ==
    IF n = "combined_portfolio_analysis"
    THEN o["soroswap"].st = "done" /\ o["defindex"].st = "done"
    ELSE o[AdapterOf(n)].st = "done"

\* a faulty variant of the combined case: the recommendations are added
\* only when the flag is true
HandlerOutcomeFlagMustBeTrue(n, a, o, e) ==
    IF n = "combined_portfolio_analysis"
    THEN getCombinedPortfolioAnalysis(o["soroswap"].out, o["defindex"].out,
                                      a.userAddress, a.includeRecommendations = JsTrue, e)
    ELSE AdapterHandler(n, o[AdapterOf(n)].out, e)

\* the handler method's result once its awaits are over
HandlerOutcome(n, a, o, e) ==
    IF n = "combined_portfolio_analysis"
    THEN getCombinedPortfolioAnalysis(o["soroswap"].out, o["defindex"].out,
                                      a.userAddress, a.includeRecommendations # JsFalse, e)
    ELSE AdapterHandler(n, o[AdapterOf(n)].out, e)

\* an outbound call settled: the adapter method continues, and with it the
\* handler when nothing is left to await
Resume(o) ==
    /\ ops' = o
    /\ IF Settled(name, o)
       THEN Return(Answer(HandlerOutcome(name, args, o, env)))
       ELSE Suspend
    /\ UNCHANGED <<env, name, args, listed>>

\* the HTTP backend answers adapter a's request
ApiAnswer(a, ans) ==
    /\ pc = "running"
    /\ ops[a].st = "api"
    /\ ans \in ApiAnswers(ops[a].method)
    /\ Resume([ops EXCEPT ![a] = AfterApi(a, Heard(ops[a], ans), ans)])

\* the HTTP client's timeout (axios.create({ timeout: 10000 })) expires first
ApiTimeout(a) ==
    /\ pc = "running"
    /\ ops[a].st = "api"
    /\ Resume([ops EXCEPT ![a] = AfterApi(a, Heard(ops[a], "timeout"), "timeout")])

\* Horizon answers adapter a's loadAccount; no timeout is set on
\* new Horizon.Server(url), so nothing else ends the wait
HorizonAnswer(a, ans) ==
    /\ pc = "running"
    /\ ops[a].st = "horizon"
    /\ Resume([ops EXCEPT ![a] = AfterHorizon(a, Heard(ops[a], ans), ans)])

\* the ListTools handler answers a tools/list request; it can arrive while
\* a tool call is suspended
ListTools ==
    /\ listed' = ToolList
    /\ UNCHANGED <<env, pc, name, args, ops, result, served>>

Next ==
    \/ \E n \in OtherNames : \E a \in ArgsOf(n) : InvokeUnknown(n, a)
    \/ \E n \in InlineTools : \E a \in ArgsOf(n) : InvokeInline(n, a)
    \/ \E n \in AdapterTools : \E a \in ArgsOf(n) : InvokeAdapter(n, a)
    \/ \E a \in ArgsOf("combined_portfolio_analysis") : InvokeCombined(a)
    \/ \E a \in Adapters : \E ans \in ListAnswers \cup QuoteAnswers \cup { "reject" } :
         ApiAnswer(a, ans)
    \/ \E a \in Adapters : ApiTimeout(a)
    \/ \E a \in Adapters : \E ans \in AccountAnswers \cup { "reject" } : HorizonAnswer(a, ans)
    \/ ListTools

Spec == Init /\ [][Next]_vars

(***************************************************************************)
(* The adapters as a library: a caller, such as a handler of the           *)
(* standalone servers of README.md, calls one adapter method.  The call,   *)
(* the answer of the HTTP backend (or the expiry of the timeout) and the   *)
(* return of the method are one step; name and args hold the method and    *)
(* its parameters.  A caller calls between two requests, and builds the    *)
(* parameters anew at each call.                                           *)
(***************************************************************************)
DirectCall(a, method, params, ans) ==
    /\ pc = "idle"
    /\ served < MaxInvocations
    /\ ans \in ApiAnswers(method) \cup { "timeout" }
    /\ name' = method
    /\ args' = params
    /\ ops' = [NoOps EXCEPT ![a] = AfterApi(a, Heard(StartOp(method, params, "api"), ans), ans)]
    /\ pc' = "idle"
    /\ result' = NoResult
    /\ served' = served + 1
    /\ UNCHANGED <<env, listed>>

RiskValues == { Undef, Str("conservative"), Str("moderate"), Str("aggressive"), Str("bold") }

\* defindexClient.optimizeYieldAllocation(totalAmount, riskTolerance, timeHorizon)
CallOptimizeYieldAllocation(totalAmount, riskTolerance, timeHorizon, ans) ==
    /\ pc = "idle"
    /\ DirectCall("defindex", "optimizeYieldAllocation",
                  [totalAmount |-> totalAmount, riskTolerance |-> riskTolerance,
                   timeHorizon |-> OrElse(timeHorizon, Str("1y"))], ans)

\* SoroswapServer.getLiquidityPools of the standalone server, from the
\* settled adapter call on: pools.find(pool => pool.pairAddress ===
\* pairAddress) when pairAddress is truthy
SoroswapServerGetLiquidityPools(out, pairAddress, e) ==
    IF ~out.ok
    THEN Returns(ErrorEnvelope("Failed to fetch liquidity pools", out.msg))
    ELSE IF ~Truthy(pairAddress)
    THEN Returns(JSONText([pools |-> out.val, network |-> NetworkOf(e), timestamp |-> NowISO]))
    ELSE IF out.val.kind # "array"
    THEN Returns(ErrorEnvelope("Failed to fetch liquidity pools", "pools.find is not a function"))
    ELSE LET Hit(pool) == pairAddress.t = "string" /\ pool.pairAddress = pairAddress.s
             found == SelectSeq(out.val.items, Hit)
         IN  IF Len(found) > 0
             THEN Returns(JSONText([pools |-> Obj(found[1]),
                                    network |-> NetworkOf(e), timestamp |-> NowISO]))
             ELSE Returns(JSONText([network |-> NetworkOf(e), timestamp |-> NowISO]))

PoolAddressValues ==
    { Undef, Str(""), Str("CAZNWAY5GKNZUY5QFPZJQY7JXDLWNXKXFKQ3KBQPG7QJLCZ7XQMDMCGL"),
      Str("CLIVEPAIRADDRESS"), Str("CNOSUCHPOOL"), NoPrimObj }

\* the standalone server's get_liquidity_pools: the handler, the adapter
\* call it awaits and the answer of the backend, in one step
StandaloneLiquidityPools(pairAddress, ans) ==
    LET op == AfterApi("soroswap",
                       Heard(StartOp("getLiquidityPools", [pairAddress |-> pairAddress], "api"),
                             ans), ans)
    IN  /\ pc = "idle"
        /\ served < MaxInvocations
        /\ ans \in ApiAnswers("getLiquidityPools") \cup { "timeout" }
        /\ name' = "get_liquidity_pools"
        /\ args' = [pairAddress |-> pairAddress]
        /\ ops' = [NoOps EXCEPT !["soroswap"] = op]
        /\ pc' = "idle"
        /\ result' = Answer(SoroswapServerGetLiquidityPools(op.out, pairAddress, env))
        /\ served' = served + 1
        /\ UNCHANGED <<env, listed>>

\* the riskLevel and minApy a caller of the vault adapter may pass: none,
\* the empty string, the legal levels and one that is not; thresholds
\* below, at, between and above the catalog yields and one that is no number
VaultRiskValues == { Undef, Str(""), Str("low"), Str("medium"), Str("high"), Str("none") }
MinApyValues ==
    { Undef, Str(""), Str("0"), Str("8.5"), Str("15.2"), Str("15.21"), Str("25.7"),
      Str("30"), Str("abc") }

\* defindexClient.getAvailableVaults(riskLevel, minApy)
CallGetAvailableVaults(riskLevel, minApy, ans) ==
    /\ pc = "idle"
    /\ DirectCall("defindex", "getAvailableVaults",
                  [riskLevel |-> riskLevel, minApy |-> minApy], ans)

AdapterNext ==
    \/ \E pa \in PoolAddressValues : \E ans \in ListAnswers \cup { "reject", "timeout" } :
         StandaloneLiquidityPools(pa, ans)
    \/ \E t \in AmountValues : \E r \in RiskValues : \E h \in { Undef, Str("6m") } :
         \E ans \in PlanAnswers \cup { "reject", "timeout" } :
           CallOptimizeYieldAllocation(t, r, h, ans)

\* the combined server and direct callers of the adapters
ClientSpec == Init /\ [][Next \/ AdapterNext]_vars

\* vault addresses: none, empty, the three of the catalog, one of no
\* catalog vault, a value that is no string
VaultAddressValues ==
    { Undef, Str("") , NoPrimObj, Str("CNOSUCHVAULT") }
      \cup { Str(mockVaults[i].address) : i \in DOMAIN mockVaults }

\* defindexClient.getVaultDetails(vaultAddress)
CallGetVaultDetails(vaultAddress, ans) ==
    /\ pc = "idle"
    /\ DirectCall("defindex", "getVaultDetails", [vaultAddress |-> vaultAddress], ans)

\* deposits and timeframes a caller may pass
DepositValues == { Str("0.01"), Str("1"), Str("100"), Str("abc"), NoPrimObj }
TimeframeValues == { Undef, Str(""), Str("1y"), Str("6m"), Str("3m") }

\* defindexClient.calculateVaultDeposit(vaultAddress, depositAmount,
\* timeframe), timeframe = '1y' when it is undefined
CallCalculateVaultDeposit(vaultAddress, depositAmount, timeframe, ans) ==
    /\ pc = "idle"
    /\ DirectCall("defindex", "calculateVaultDeposit",
                  [vaultAddress |-> vaultAddress, depositAmount |-> depositAmount,
                   timeframe |-> IF timeframe = Undef THEN Str("1y") ELSE timeframe], ans)

\* DefindexServer.optimizeYieldAllocation of the standalone server, from
\* the settled adapter call on: the plan is spread into the document
DefindexServerOptimizeYieldAllocation(out, e) ==
    IF ~out.ok
    THEN Returns(ErrorEnvelope("Failed to optimize yield allocation", out.msg))
    ELSE IF out.val.kind = "object"
    THEN Returns(JSONText(out.val.obj @@ [network |-> NetworkOf(e), timestamp |-> NowISO]))
    ELSE Returns(JSONText([network |-> NetworkOf(e), timestamp |-> NowISO]))

\* the standalone server's optimize_yield_allocation: the case, the
\* handler, the adapter call it awaits and the answer of the backend, in
\* one step; the arguments are passed on unchecked
StandaloneOptimize(totalAmount, riskTolerance, timeHorizon, ans) ==
    LET params == [totalAmount |-> totalAmount, riskTolerance |-> riskTolerance,
                   timeHorizon |-> OrElse(timeHorizon, Str("1y"))]
        op == AfterApi("defindex",
                       Heard(StartOp("optimizeYieldAllocation", params, "api"), ans), ans)
    IN  /\ pc = "idle"
        /\ served < MaxInvocations
        /\ ans \in ApiAnswers("optimizeYieldAllocation") \cup { "timeout" }
        /\ name' = "optimize_yield_allocation"
        /\ args' = [totalAmount |-> totalAmount, riskTolerance |-> riskTolerance,
                    timeHorizon |-> timeHorizon]
        /\ ops' = [NoOps EXCEPT !["defindex"] = op]
        /\ pc' = "idle"
        /\ result' = Answer(DefindexServerOptimizeYieldAllocation(op.out, env))
        /\ served' = served + 1
        /\ UNCHANGED <<env, listed>>

\* calls of the vault adapter's catalog methods
VaultAdapterNext ==
    \/ \E r \in VaultRiskValues : \E m \in MinApyValues :
         \E ans \in { "live", "nobody", "reject", "timeout" } :
           CallGetAvailableVaults(r, m, ans)
    \/ \E v \in VaultAddressValues : \E ans \in { "vault", "nobody", "reject", "timeout" } :
         CallGetVaultDetails(v, ans)
    \/ \E v \in { Str(mockVaults[2].address), Str("CNOSUCHVAULT"), NoPrimObj } :
         \E d \in DepositValues : \E t \in TimeframeValues :
           \E ans \in { "calc", "reject", "timeout" } :
             CallCalculateVaultDeposit(v, d, t, ans)
    \/ \E t \in { Str("1000"), Str("abc"), NoPrimObj } : \E r \in RiskValues :
         \E h \in { Undef, Str("6m") } : \E ans \in { "plan", "reject", "timeout" } :
           StandaloneOptimize(t, r, h, ans)

\* the adapters used as a library, without the combined server
LibrarySpec == Init /\ [][AdapterNext \/ VaultAdapterNext]_vars

\* The HTTP client's timer is part of the program and fires when the
\* backend stays silent; nothing obliges a backend to answer.
LiveSpec == Spec /\ WF_vars(\E a \in Adapters : ApiTimeout(a))

(***************************************************************************)
(* Properties.                                                             *)
(***************************************************************************)
\* the names listOperations advertises
Catalog == { ToolList[i] : i \in DOMAIN ToolList }

\* result is the answer to the request (name, args)
Answered == pc = "idle" /\ served > 0

\* the adapter calls the handler method of the current request awaits
Awaited ==
    IF name = "combined_portfolio_analysis" THEN Adapters
    ELSE IF name \in AdapterTools THEN { AdapterOf(name) }
    ELSE {}

\* the catch block of the handler method ran: an awaited adapter call
\* rejected, or resolved with a list the method could not reduce
CaughtInHandler ==
    \E a \in Awaited : ~ops[a].out.ok \/ ops[a].out.val.kind = "notarray"

EnvelopeKeys == { "error", "details", "fallback" }

\* the text is the structured failure document
IsEnvelope(text) == ParsesAsJSON(text) /\ DOMAIN text.doc = EnvelopeKeys

\* C1: a request whose name is not in the catalog, whatever its arguments,
\* is answered with isError = true and a non-empty message, and the server
\* is ready for the next request.
C1_UnknownOperationIsError ==
    (served > 0 /\ name \notin Catalog) =>
        /\ pc = "idle"
        /\ result.isError
        /\ result.text.str = "Error: Unknown tool: " \o name
        /\ result.text.str # ""

\* C1 witness: an unknown name answered after an earlier request.
C1_Witness ==
    /\ Answered
    /\ served = 2
    /\ name = "get_token_pairs"
    /\ args.token = Str("XLM")
    /\ result.isError

\* C2 (as claimed): for every name of the catalog, any arguments and any
\* backend outcome, the text of the result is a valid JSON document.
C2_RecognizedResultIsJSON ==
    (Answered /\ name \in Catalog) => ParsesAsJSON(result.text)

\* C3 (as claimed): every failure result, the unknown-operation result and
\* the results of the catch-all boundary included, is a JSON document with
\* the fields error, details and fallback.
C3_EveryFailureIsEnvelope ==
    (Answered /\ (result.isError \/ CaughtInHandler)) => IsEnvelope(result.text)

\* C3 (amended): a failure caught by a handler method's own catch block is
\* the JSON document {error, details, fallback} and is not flagged isError;
\* a failure caught by the dispatcher's catch-all, the unknown-operation
\* result included, is flagged isError and its text is the bare string
\* "Error: <message>"; no other result carries an error field.
C3_FailureShapes ==
    Answered =>
        /\ CaughtInHandler => (~result.isError /\ IsEnvelope(result.text))
        /\ result.isError =>
             (~ParsesAsJSON(result.text) /\ result.text.str # ""
                /\ (name \notin Catalog => result.text.str = "Error: Unknown tool: " \o name)
                /\ (name \in Catalog => result.text.str = "Error: " \o NoPrimMessage))
        /\ (~result.isError /\ ~CaughtInHandler) =>
             (ParsesAsJSON(result.text) /\ "error" \notin DOMAIN result.text.doc)

\* C3 witness: a malformed vault list makes getDefindexVaults catch.
C3_Witness ==
    /\ Answered
    /\ name = "defindex_get_vaults"
    /\ ops["defindex"].heard = <<"badlist">>
    /\ IsEnvelope(result.text)

\* a successful result: not flagged, and no failure document
IsSuccess == ~result.isError /\ ParsesAsJSON(result.text) /\ ~IsEnvelope(result.text)

\* C4 (as claimed): for every operation of the combined server, the text of
\* a successful result has a network field, holding the configured network
\* ('testnet' when none is configured), and a timestamp field.
C4_SuccessHasNetworkAndTimestamp ==
    (Answered /\ name \in Catalog /\ IsSuccess) =>
        /\ { "network", "timestamp" } \subseteq DOMAIN result.text.doc
        /\ result.text.doc.network = NetworkOf(env)

\* C5 (as claimed): isError = true occurs only when the operation name is
\* not recognized.
C5_OnlyUnknownIsError ==
    (Answered /\ result.isError) => name \notin Catalog

\* the first outbound call of adapter a's method was made and failed
PrimaryFailed(a) ==
    /\ Len(ops[a].heard) > 0
    /\ ops[a].heard[1] \in { "reject", "timeout", "nobody", "nobalances" }

\* the result carries mock data: a mock generator of an adapter ran, or the
\* handler method answered from its own mock literal
MockReturned ==
    \/ \E a \in Awaited : Len(ops[a].tiers) > 0 /\ ops[a].tiers[Len(ops[a].tiers)] = "mock"
    \/ name \in InlineTools /\ IsSuccess

\* C6 (as claimed): every recognized operation calls its adapter method,
\* which attempts the primary backend first; mock data is returned only
\* when the primary backend call of that invocation was attempted and failed.
C6_PrimaryAttemptedBeforeMock ==
    (Answered /\ name \in Catalog) =>
        /\ \E a \in Adapters : Len(ops[a].tiers) > 0
        /\ \A a \in Adapters : Len(ops[a].tiers) > 0 => ops[a].tiers[1] \in { "api", "horizon" }
        /\ MockReturned => \E a \in Adapters : PrimaryFailed(a)

\* the answers that make an outbound call count as failed
FailedAnswers == { "reject", "timeout", "nobody", "nobalances" }

\* the number of entries of seq equal to x
Count(seq, x) == Cardinality({ i \in DOMAIN seq : seq[i] = x })

\* seq is a non-empty prefix of full
IsPrefix(seq, full) ==
    /\ Len(seq) >= 1
    /\ Len(seq) <= Len(full)
    /\ \A i \in DOMAIN seq : seq[i] = full[i]

\* C7: in DefindexClient.getUserPositions the tiers run in the order vault
\* query, ledger, mock: the ledger is queried only after the vault query
\* failed, the mock positions are returned only after both failed, and the
\* method resolves with the output of the first tier that succeeded.
C7_VaultPositionTiersInOrder ==
    LET op == ops["defindex"]
        n == Len(op.tiers)
    IN  op.method = "getUserPositions" =>
          /\ IsPrefix(op.tiers, <<"api", "horizon", "mock">>)
          /\ n >= 2 => op.heard[1] \in FailedAnswers
          /\ n = 3 => op.heard[2] \in FailedAnswers
          /\ op.st = "done" =>
               /\ op.out.ok
               /\ n = 1 =>
                    /\ op.heard[1] \notin FailedAnswers
                    /\ op.out.val = ListOf(op.heard[1], livePosition, partialPosition)
               /\ n = 2 =>
                    /\ op.heard[2] \notin FailedAnswers
                    /\ op.out.val.kind = "array"
                    /\ Len(op.out.val.items) = Count(BalancesOf(op.heard[2]), balCredit)
                    /\ \A i \in DOMAIN op.out.val.items :
                         /\ op.out.val.items[i].entryPrice = "1.0"
                         /\ op.out.val.items[i].currentPrice = "1.0"
                         /\ op.out.val.items[i].pnl = "0"
               /\ n = 3 => op.out.val = Arr(defindexMockUserPositions)

\* C7 witness: the vault query timed out and the ledger served the result.
C7_Witness ==
    /\ ops["defindex"].method = "getUserPositions"
    /\ ops["defindex"].st = "done"
    /\ ops["defindex"].heard = <<"timeout", "native+credit">>
    /\ ops["defindex"].tiers = <<"api", "horizon">>
    /\ Len(ops["defindex"].out.val.items) = 1

C9_EveryInvocationReturns == (pc = "running") ~> (pc = "idle")

\* the list of adapter a cannot be summed: the call rejected or resolved
\* with something that is no array
FetchUnusable(a) == ~ops[a].out.ok \/ ops[a].out.val.kind # "array"

\* C10: combined_portfolio_analysis has both position fetches started
\* whenever it is suspended, answers only after both have settled, and
\* answers with the bare failure document, without positions or totals of
\* either side, when one of the lists is unusable.
C10_CombinedJoin ==
    (name = "combined_portfolio_analysis" /\ (pc = "running" \/ Answered)) =>
        /\ \A a \in Adapters : ops[a].st # "idle" /\ Len(ops[a].tiers) >= 1
        /\ Answered =>
             /\ \A a \in Adapters : ops[a].st = "done"
             /\ ~result.isError
             /\ (\E a \in Adapters : FetchUnusable(a)) => IsEnvelope(result.text)
             /\ (\A a \in Adapters : ~FetchUnusable(a)) =>
                  /\ DOMAIN result.text.doc = { "analysis", "network", "timestamp" }
                  /\ result.text.doc.analysis.soroswapPositions = ops["soroswap"].out.val.items
                  /\ result.text.doc.analysis.defindexPositions = ops["defindex"].out.val.items

\* C10 witness: the swap side delivered a position, the vault side a
\* malformed list, and the answer is the failure document.
C10_Witness ==
    /\ Answered
    /\ name = "combined_portfolio_analysis"
    /\ ops["soroswap"].heard = <<"native+lp">>
    /\ Len(ops["soroswap"].out.val.items) = 1
    /\ ops["defindex"].heard = <<"badlist">>
    /\ IsEnvelope(result.text)

RECURSIVE ReplayOp(_, _, _, _)
\* the adapter call op of adapter a after its outbound calls settled with
\* answers[i], answers[i + 1], ... in turn
ReplayOp(a, op, answers, i) ==
    IF i > Len(answers)
    THEN op
    ELSE ReplayOp(a,
                  IF op.st = "api"
                  THEN AfterApi(a, Heard(op, answers[i]), answers[i])
                  ELSE AfterHorizon(a, Heard(op, answers[i]), answers[i]),
                  answers, i + 1)

\* the adapter calls a request (n, a) starts, whatever came before it
FreshOps(n, a) ==
    IF n \in AdapterTools
    THEN [NoOps EXCEPT ![AdapterOf(n)] = AdapterCall(n, a)]
    ELSE IF n = "combined_portfolio_analysis"
    THEN [soroswap |-> StartOp("getUserPositions", [userAddress |-> a.userAddress], "horizon"),
          defindex |-> StartOp("getUserPositions", [userAddress |-> a.userAddress], "api")]
    ELSE NoOps

\* the adapter calls of request (n, a) once the backends gave the answers
\* heardOf[adapter]
OpsAfter(n, a, heardOf) ==
    [ad \in Adapters |-> ReplayOp(ad, FreshOps(n, a)[ad], heardOf[ad], 1)]

\* the result of request (n, a) under environment e and these backend
\* answers, computed from nothing else
ResultOf(n, a, heardOf, e) ==
    IF n \notin SwitchCases THEN UnknownTool(n)
    ELSE IF n \in InlineTools THEN Answer(InlineHandler(n, a))
    ELSE Answer(HandlerOutcome(n, a, OpsAfter(n, a, heardOf), e))

C12_CatalogIsDispatchSet ==
    /\ listed # <<>> =>
          /\ listed = ToolList
          /\ \A i, j \in DOMAIN listed : listed[i] = listed[j] => i = j
          /\ { listed[i] : i \in DOMAIN listed } = SwitchCases
    /\ Answered =>
          (name \in Catalog <=> result # UnknownTool(name))

\* C12 witness: the catalog was listed while the second request, for an
\* advertised name, was suspended.
C12_Witness ==
    /\ listed = ToolList
    /\ served = 1
    /\ pc = "running"
    /\ name = "combined_portfolio_analysis"

\* the adapter's optimizer returned its own plan: the request failed and
\* getMockOptimization ran
AdapterPlanReturned ==
    /\ name = "optimizeYieldAllocation"
    /\ served > 0
    /\ ops["defindex"].st = "done"
    /\ ops["defindex"].out.ok
    /\ ops["defindex"].tiers = <<"api", "mock">>

\* the combined server's tool returned a plan
ServerPlanReturned ==
    /\ Answered
    /\ name = "defindex_optimize_allocation"
    /\ ~result.isError

PlanReturned == AdapterPlanReturned \/ ServerPlanReturned

\* the plan returned in this state
ThePlan ==
    IF AdapterPlanReturned
    THEN ops["defindex"].out.val.obj.optimization
    ELSE result.text.doc.optimization

NamedRisks == { Str("conservative"), Str("moderate"), Str("aggressive") }

RECURSIVE PercentSum(_, _)
\* the sum of the allocation percentages, in hundredths of a percent
PercentSum(allocations, i) ==
    IF i > Len(allocations) THEN 0
    ELSE ParseFloatStr(allocations[i].allocation).u + PercentSum(allocations, i + 1)

\* C13: for riskTolerance conservative, moderate or aggressive and any
\* totalAmount, the allocation percentages of the plan returned by the
\* adapter's optimizer and by defindex_optimize_allocation are numbers that
\* sum to exactly 100.
C13_AllocationsSumTo100 ==
    (PlanReturned /\ ThePlan.riskTolerance \in NamedRisks) =>
        /\ \A i \in DOMAIN ThePlan.recommendedAllocation :
             ~ParseFloatStr(ThePlan.recommendedAllocation[i].allocation).nan
        /\ PercentSum(ThePlan.recommendedAllocation, 1) = 100 * Unit

\* C13 witness: the adapter's aggressive plan, with three allocations, for
\* an amount that is no number.
C13_Witness ==
    /\ AdapterPlanReturned
    /\ ThePlan.riskTolerance = Str("aggressive")
    /\ ThePlan.totalAmount = Str("abc")
    /\ Len(ThePlan.recommendedAllocation) = 3

\* the (percentage, risk level) pairs of the plan, in order
WeightsOf(plan) ==
    [i \in DOMAIN plan.recommendedAllocation |->
       <<plan.recommendedAllocation[i].allocation, plan.recommendedAllocation[i].riskLevel>>]

\* C14 (as claimed): the adapter's optimizer and defindex_optimize_allocation
\* return 70 low / 30 medium for conservative, 50 low / 50 medium for
\* moderate and 30 low / 40 medium / 30 high for aggressive.
C14_FixedWeights ==
    PlanReturned =>
        /\ ThePlan.riskTolerance = Str("conservative") =>
             WeightsOf(ThePlan) = << <<"70", "low">>, <<"30", "medium">> >>
        /\ ThePlan.riskTolerance = Str("moderate") =>
             WeightsOf(ThePlan) = << <<"50", "low">>, <<"50", "medium">> >>
        /\ ThePlan.riskTolerance = Str("aggressive") =>
             WeightsOf(ThePlan) = << <<"30", "low">>, <<"40", "medium">>, <<"30", "high">> >>

\* expectedPortfolioApy of the plan as a number, in hundredths
PlanApy(plan) ==
    IF AdapterPlanReturned
    THEN plan.expectedPortfolioApy.n.u
    ELSE ParseFloatStr(plan.expectedPortfolioApy).u

RECURSIVE ApyTimesPercent(_, _)
\* the sum over the allocations of percentage times expectedApy
ApyTimesPercent(allocations, i) ==
    IF i > Len(allocations) THEN 0
    ELSE (ParseFloatStr(allocations[i].allocation).u \div Unit)
           * ParseFloatStr(allocations[i].expectedApy).u
           + ApyTimesPercent(allocations, i + 1)

\* C15: in every plan returned by the adapter's optimizer or by
\* defindex_optimize_allocation, expectedPortfolioApy is the sum over the
\* plan's own allocations of percentage / 100 times expectedApy, rounded to
\* two decimals; for conservative it is 10.51.
C15_PortfolioApyIsWeightedSum ==
    PlanReturned =>
        /\ PlanApy(ThePlan) = RoundDiv(ApyTimesPercent(ThePlan.recommendedAllocation, 1), 100)
        /\ ThePlan.riskTolerance = Str("conservative") => PlanApy(ThePlan) = 1051

\* C15 witness: the adapter's aggressive plan, whose APY is 16.34.
C15_Witness ==
    /\ AdapterPlanReturned
    /\ ThePlan.riskTolerance = Str("aggressive")
    /\ ThePlan.totalAmount = Str("10000")
    /\ PlanApy(ThePlan) = 1634

\* SoroswapClient.getSwapQuote returned the quote of getMockSwapQuote, for
\* an amount and a slippage that are numbers
MockQuoteReturned ==
    /\ ops["soroswap"].method = "getSwapQuote"
    /\ ops["soroswap"].st = "done"
    /\ ops["soroswap"].tiers = <<"api", "mock">>
    /\ ops["soroswap"].out.ok
    /\ ~ParseFloat(ops["soroswap"].params.amountIn).nan
    /\ ~ParseFloat(ops["soroswap"].params.slippage).nan

TheQuote == ops["soroswap"].out.val.obj
QuoteParams == ops["soroswap"].params

\* the quote for the same tokens with another amount or another slippage
QuoteFor(amountIn, slippage) ==
    getMockSwapQuote(QuoteParams.tokenIn, QuoteParams.tokenOut, amountIn, slippage)

NumericAmounts == { v \in QuoteAmountValues : ~ParseFloat(v).nan }
NumericSlippages == { v \in SlippageValues \cup { Str("0.5") } : ~ParseFloat(v).nan }

\* x < y as amounts
AmountLess(x, y) ==
    \/ ParseFloat(x).u < ParseFloat(y).u
    \/ ParseFloat(x).u = ParseFloat(y).u /\ Fine(x) < Fine(y)

\* y - x >= 0.00001
AmountApart(x, y) ==
    \/ ParseFloat(y).u - ParseFloat(x).u >= 2
    \/ /\ ParseFloat(y).u - ParseFloat(x).u \in { 0, 1 }
       /\ (ParseFloat(y).u - ParseFloat(x).u) * 100000 + Fine(y) - Fine(x) >= 100

\* C16 (as claimed): on the mock path, for fixed tokens and slippage, a
\* strictly larger amountIn gives a strictly larger amountOut and a
\* strictly larger minimumReceived.
C16_QuoteStrictlyIncreasing ==
    MockQuoteReturned =>
        \A a2 \in NumericAmounts :
            AmountLess(QuoteParams.amountIn, a2) =>
                /\ QuoteFor(a2, QuoteParams.slippage).amountOut.u > TheQuote.amountOut.u
                /\ QuoteFor(a2, QuoteParams.slippage).minimumReceived.u > TheQuote.minimumReceived.u

\* C16 (amended): on the mock path, for fixed tokens and a slippage of at
\* most 100 percent, a larger amountIn never gives a smaller amountOut or
\* minimumReceived; amountOut is strictly larger when amountIn grows by at
\* least 0.00001, and so is minimumReceived when in addition the slippage
\* is at most 10 percent.  Below the six decimals of the report the values
\* stay equal.
C16_QuoteNonDecreasing ==
    MockQuoteReturned =>
        \A a2 \in NumericAmounts :
            AmountLess(QuoteParams.amountIn, a2) =>
                LET q2 == QuoteFor(a2, QuoteParams.slippage)
                IN  /\ q2.amountOut.u >= TheQuote.amountOut.u
                    /\ q2.minimumReceived.u >= TheQuote.minimumReceived.u
                    /\ AmountApart(QuoteParams.amountIn, a2) =>
                          /\ q2.amountOut.u > TheQuote.amountOut.u
                          /\ ParseFloat(QuoteParams.slippage).u <= 10 * Unit =>
                                q2.minimumReceived.u > TheQuote.minimumReceived.u

\* C16 witness: the quote for one stroop, which reports 0.000000 like the
\* quote for two stroops.
C16_Witness ==
    /\ MockQuoteReturned
    /\ QuoteParams.amountIn = Str("0.0000001")
    /\ QuoteParams.slippage = Str("0.5")
    /\ TheQuote.amountOut.u = 0
    /\ QuoteFor(Str("0.0000002"), Str("0.5")).amountOut.u = 0
    /\ QuoteFor(Str("0.01"), Str("0.5")).amountOut.u = 1196

\* C17 (as claimed): on the mock path, for fixed tokens and amountIn, a
\* strictly larger slippage gives a strictly smaller minimumReceived.
C17_SlippageStrictlyDecreasing ==
    MockQuoteReturned =>
        \A s2 \in NumericSlippages :
            ParseFloat(s2).u > ParseFloat(QuoteParams.slippage).u =>
                QuoteFor(QuoteParams.amountIn, s2).minimumReceived.u
                    < TheQuote.minimumReceived.u

\* C17 (amended): on the mock path, for fixed tokens and amountIn, a larger
\* slippage (up to 100 percent) never gives a larger minimumReceived, and
\* gives a strictly smaller one when amountIn is at least 0.01 and the
\* slippage grows by at least half a percent.  For an amountIn of 0, or
\* one whose amountOut is below the six decimals of the report,
\* minimumReceived is 0.000000 whatever the slippage.
C17_SlippageNonIncreasing ==
    MockQuoteReturned =>
        \A s2 \in NumericSlippages :
            ParseFloat(s2).u > ParseFloat(QuoteParams.slippage).u =>
                LET q2 == QuoteFor(QuoteParams.amountIn, s2)
                IN  /\ q2.amountOut = TheQuote.amountOut
                    /\ q2.minimumReceived.u <= TheQuote.minimumReceived.u
                    /\ ParseFloat(QuoteParams.amountIn).u >= 1 =>
                          q2.minimumReceived.u < TheQuote.minimumReceived.u
                    /\ TheQuote.amountOut.u = 0 =>
                          q2.minimumReceived.u = TheQuote.minimumReceived.u

\* C17 witness: the quote for amountIn 0.01 with 1 percent slippage, whose
\* minimum is below the one for half a percent.
C17_Witness ==
    /\ MockQuoteReturned
    /\ QuoteParams.amountIn = Str("0.01")
    /\ QuoteParams.slippage = Str("1")
    /\ TheQuote.minimumReceived.u = 1184
    /\ QuoteFor(Str("0.01"), Str("0.5")).minimumReceived.u = 1190

\* C18: on the mock path the quote has route [tokenIn, tokenOut], amountOut
\* = amountIn * 0.12 * 0.997 to six decimals and minimumReceived = amountOut
\* less slippage percent; amountIn 1000 with slippage 0.5 gives 119.64 and
\* 119.04 to two decimals.
C18_MockQuoteValues ==
    /\ (ops["soroswap"].method = "getSwapQuote" /\ ops["soroswap"].st = "done"
          /\ ops["soroswap"].tiers = <<"api", "mock">> /\ ops["soroswap"].out.ok) =>
            /\ TheQuote.route = <<QuoteParams.tokenIn, QuoteParams.tokenOut>>
            /\ TheQuote.amountIn = QuoteParams.amountIn
            /\ TheQuote.slippage = QuoteParams.slippage
    /\ MockQuoteReturned =>
          LET u == ParseFloat(QuoteParams.amountIn).u
              k == 200 - ParseFloat(QuoteParams.slippage).u \div 50
          IN  /\ Fine(QuoteParams.amountIn) = 0 =>
                    TheQuote.amountOut.u = MulDiv(u, 5982, 5)
              /\ (Fine(QuoteParams.amountIn) = 0 /\ u % 5 = 0) =>
                    TheQuote.minimumReceived.u = MulDiv(TheQuote.amountOut.u, k, 200)
              /\ (QuoteParams.amountIn = Str("1000") /\ QuoteParams.slippage = Str("0.5")) =>
                    /\ TheQuote.amountOut.u = 119640000
                    /\ TheQuote.minimumReceived.u = 119041800
                    /\ RoundDiv(TheQuote.amountOut.u, 10000) = 11964
                    /\ RoundDiv(TheQuote.minimumReceived.u, 10000) = 11904

\* C18 witness: the scenario quote, 1000 in with the default slippage.
C18_Witness ==
    /\ MockQuoteReturned
    /\ QuoteParams.tokenIn = Str("native")
    /\ QuoteParams.amountIn = Str("1000")
    /\ QuoteParams.slippage = Str("0.5")
    /\ TheQuote.route = <<Str("native"), Str("USDC-ADDR")>>
    /\ TheQuote.minimumReceived.u = 119041800

\* SoroswapClient.getTokenPairs resolved with a list
PairsReturned ==
    /\ ops["soroswap"].method = "getTokenPairs"
    /\ ops["soroswap"].st = "done"
    /\ ops["soroswap"].out.ok
    /\ ops["soroswap"].out.val.kind = "array"

ThePairs == ops["soroswap"].out.val.items
TheToken == ops["soroswap"].params.token

\* a token of the pair has t as its symbol or its address
HasToken(pair, t) ==
    \E side \in { pair.token0, pair.token1 } : side.symbol = t \/ side.address = t

\* what getTokenPairs(undefined) resolves with under the same backend answer
UnfilteredPairs ==
    getTokenPairs(StartOp("getTokenPairs", [token |-> Undef], "api"),
                  ops["soroswap"].heard[1]).out.val.items

ThePoolAddress == args.pairAddress

MockVaultsReturned ==
    /\ served > 0
    /\ ops["defindex"].method = "getAvailableVaults"
    /\ ops["defindex"].st = "done"
    /\ ops["defindex"].tiers = <<"api", "mock">>
    /\ ops["defindex"].out.ok

TheVaults == ops["defindex"].out.val.items
TheRiskLevel == ops["defindex"].params.riskLevel
TheMinApy == ops["defindex"].params.minApy

\* vault passes the filters the caller gave (an absent or empty argument
\* is no filter)
VaultWanted(vault, riskLevel, minApy) ==
    /\ Truthy(riskLevel) => Str(vault.riskLevel) = riskLevel
    /\ Truthy(minApy) =>
          /\ minApy.t = "string"
          /\ minApy.s \in DOMAIN DecimalOf
          /\ DecimalOf[vault.apy] >= DecimalOf[minApy.s]

\* C21: on the mock path getAvailableVaults(riskLevel, minApy) returns
\* exactly the catalog vaults whose riskLevel equals the given riskLevel
\* and whose apy, as a number, is at least the given minApy, in catalog
\* order; for riskLevel "high" and no minApy that is one vault, with apy
\* "25.7".
C21_MockVaultsFiltered ==
    MockVaultsReturned =>
        /\ LET Keep(vault) == VaultWanted(vault, TheRiskLevel, TheMinApy)
           IN  TheVaults = SelectSeq(mockVaults, Keep)
        /\ (TheRiskLevel = Str("high") /\ TheMinApy = Undef) =>
              /\ Len(TheVaults) = 1
              /\ TheVaults[1].apy = "25.7"

\* C21 witness: the adapter, asked for vaults that yield at least 15.2
\* while the backend is down, returns the second and third catalog vault.
C21_Witness ==
    /\ MockVaultsReturned
    /\ name = "getAvailableVaults"
    /\ TheRiskLevel = Undef
    /\ TheMinApy = Str("15.2")
    /\ Len(TheVaults) = 2
    /\ TheVaults[1].apy = "15.2"

\* getVaultDetails returned while the backend was unavailable: the request
\* was rejected or timed out
DetailsWithoutBackend ==
    /\ served > 0
    /\ name = "getVaultDetails"
    /\ ops["defindex"].st = "done"
    /\ ApiFailed(ops["defindex"].heard[1])

TheVaultAddress == args.vaultAddress
TheDetails == ops["defindex"].out

\* C22: when the backend is unavailable, getVaultDetails(vaultAddress)
\* returns the catalog vault with that address if there is one and the
\* first catalog vault otherwise; it never returns an error or an empty
\* result.
C22_DetailsFallBackToFirstVault ==
    DetailsWithoutBackend =>
        /\ TheDetails.ok
        /\ TheDetails.val.kind = "object"
        /\ \A i \in DOMAIN mockVaults :
              Str(mockVaults[i].address) = TheVaultAddress => TheDetails.val.obj = mockVaults[i]
        /\ (\A i \in DOMAIN mockVaults : Str(mockVaults[i].address) # TheVaultAddress) =>
              TheDetails.val.obj = mockVaults[1]

\* C22 witness: asked for an address that no catalog vault has while the
\* backend is down, the adapter returns the first catalog vault, whose
\* address is not the one requested.
C22_Witness ==
    /\ DetailsWithoutBackend
    /\ TheVaultAddress = Str("CNOSUCHVAULT")
    /\ TheDetails.ok
    /\ TheDetails.val.obj.symbol = "SSYV"
    /\ Str(TheDetails.val.obj.address) # TheVaultAddress

\* calculateVaultDeposit returned the projection of
\* getMockDepositCalculation for a deposit that is a number
MockProjectionReturned ==
    /\ served > 0
    /\ name = "calculateVaultDeposit"
    /\ ops["defindex"].st = "done"
    /\ ops["defindex"].tiers = <<"api", "mock">>
    /\ ops["defindex"].out.ok
    /\ ~ParseFloat(args.depositAmount).nan

TheProjection == ops["defindex"].out.val.obj.calculation

\* the projected yield for the vault and deposit of this state, over
\* another timeframe
YieldOver(timeframe) ==
    getMockDepositCalculation(args.vaultAddress, args.depositAmount,
                              timeframe).calculation.projectedYield.u

\* C23: for the same vault and the same deposit, the projected yield over
\* "1y" is exactly twice the projected yield over "6m", and over any other
\* timeframe it is a quarter of the yield over "1y".
C23_YieldScalesWithTimeframe ==
    MockProjectionReturned =>
        /\ ~TheProjection.projectedYield.nan
        /\ TheProjection.timeframe = Str("1y") =>
              TheProjection.projectedYield.u = 2 * YieldOver(Str("6m"))
        /\ TheProjection.timeframe = Str("6m") =>
              2 * TheProjection.projectedYield.u = YieldOver(Str("1y"))
        /\ TheProjection.timeframe \notin { Str("1y"), Str("6m") } =>
              4 * TheProjection.projectedYield.u = YieldOver(Str("1y"))

\* C23 witness: a deposit of 100 into the second catalog vault over six
\* months, projected while the backend is down: a yield of 7.6.
C23_Witness ==
    /\ MockProjectionReturned
    /\ args.depositAmount = Str("100")
    /\ args.vaultAddress = Str(mockVaults[2].address)
    /\ TheProjection.timeframe = Str("6m")
    /\ TheProjection.projectedYield.u = 7600000 * 4

\* combined_portfolio_analysis answered with an analysis
AnalysisReturned ==
    /\ Answered
    /\ name = "combined_portfolio_analysis"
    /\ ~result.isError
    /\ ~IsEnvelope(result.text)

TheAnalysis == result.text.doc.analysis
TheSummary == TheAnalysis.summary

\* the field k of a position as a number, zero when the position has no
\* such field or the field is no number
FieldOrZero(pos, k) ==
    IF k \in DOMAIN pos /\ pos[k] \in DOMAIN DecimalOf THEN DecimalOf[pos[k]] ELSE 0

RECURSIVE ZeroFilledSum(_, _, _)
\* the sum of FieldOrZero over positions i, i + 1, ...
ZeroFilledSum(positions, k, i) ==
    IF i > Len(positions) THEN 0
    ELSE FieldOrZero(positions[i], k) + ZeroFilledSum(positions, k, i + 1)

\* C24 (as claimed): totalValue and totalPnl of the combined analysis are
\* numbers, the sums of the value and profit/loss fields over the swap and
\* the vault positions, where a missing or unparsable field counts as zero.
C24_TotalsAreZeroFilledSums ==
    AnalysisReturned =>
        /\ ~TheSummary.totalValue.nan
        /\ ~TheSummary.totalPnl.nan
        /\ TheSummary.totalValue.u =
              ZeroFilledSum(TheAnalysis.soroswapPositions, "value", 1)
                + ZeroFilledSum(TheAnalysis.defindexPositions, "underlyingValue", 1)
        /\ TheSummary.totalPnl.u =
              ZeroFilledSum(TheAnalysis.soroswapPositions, "pnl", 1)
                + ZeroFilledSum(TheAnalysis.defindexPositions, "pnl", 1)

ThePercent == TheSummary.totalPnlPercent

\* the literal '0' of the guard
ZeroPercent == [fixed2 |-> FALSE, n |-> Num(0)]

\* |x|
Abs(x) == IF x >= 0 THEN x ELSE 0 - x

C26_RecommendationsFollowFlag ==
    AnalysisReturned =>
        IF args.includeRecommendations = JsFalse
        THEN "recommendations" \notin DOMAIN TheAnalysis
        ELSE /\ "recommendations" \in DOMAIN TheAnalysis
             /\ TheAnalysis.recommendations = Recommendations
             /\ Len(TheAnalysis.recommendations) = 2
             /\ TheAnalysis.recommendations[1].type = "rebalancing"
             /\ TheAnalysis.recommendations[2].type = "diversification"

\* C26 witness: an analysis asked for without the flag, over no swap
\* position and one live vault position, holds the recommendations.
C26_Witness ==
    /\ AnalysisReturned
    /\ args.includeRecommendations = Undef
    /\ Len(TheAnalysis.soroswapPositions) = 0
    /\ ops["defindex"].heard = <<"live">>
    /\ "recommendations" \in DOMAIN TheAnalysis

\* the three optional arguments with a declared default, by operation
DefaultedArgument ==
    "soroswap_get_swap_quote" :> "slippage" @@
    "soroswap_get_token_price" :> "baseCurrency" @@
    "defindex_optimize_allocation" :> "timeHorizon"

DeclaredDefault ==
    "slippage" :> Str("0.5") @@ "baseCurrency" :> Str("USD") @@ "timeHorizon" :> Str("1y")

\* the handler of the request in this state has passed the argument on:
\* the swap quote to the adapter call, the other two to the handler
\* method, which returned
ArgumentPassed ==
    /\ served > 0 \/ pc = "running"
    /\ name \in DOMAIN DefaultedArgument
    /\ name = "soroswap_get_swap_quote" => ops["soroswap"].st # "idle"
    /\ name # "soroswap_get_swap_quote" => Answered /\ ~result.isError

\* the value the handler passed on
PassedValue ==
    CASE name = "soroswap_get_swap_quote" -> ops["soroswap"].params.slippage
      [] name = "soroswap_get_token_price" -> result.text.doc.baseCurrency
      [] name = "defindex_optimize_allocation" -> result.text.doc.optimization.timeHorizon

\* the value the caller sent
SentValue == args[DefaultedArgument[name]]

\* C27 (as claimed): an optional argument with a declared default that is
\* absent from the invocation is replaced by the default (slippage "0.5",
\* baseCurrency "USD", timeHorizon "1y"); a value the caller supplies is
\* passed on unchanged.
C27_DefaultOnlyWhenAbsent ==
    ArgumentPassed =>
        PassedValue = IF SentValue = Undef
                      THEN DeclaredDefault[DefaultedArgument[name]]
                      ELSE SentValue

\* C27 (amended): the default replaces an argument that is absent or
\* empty; every other value the caller supplies is passed on unchanged.
C27_DefaultWhenAbsentOrEmpty ==
    ArgumentPassed =>
        PassedValue = IF SentValue = Undef \/ SentValue = Str("")
                      THEN DeclaredDefault[DefaultedArgument[name]]
                      ELSE SentValue

\* C27 witness: a swap quote requested with the empty string as slippage
\* reaches the adapter with slippage "0.5".
C27_Witness ==
    /\ ArgumentPassed
    /\ name = "soroswap_get_swap_quote"
    /\ SentValue = Str("")
    /\ PassedValue = Str("0.5")

\* defindex_get_vaults was answered after getAvailableVaults settled
VaultsToolAnswered ==
    /\ Answered
    /\ name = "defindex_get_vaults"
    /\ ops["defindex"].st = "done"

\* the keys of a vault record of the fallback tier, and the top-level keys
\* of the tool result that wraps a vault list
VaultKeys == DOMAIN mockVaults[1]
VaultsResultKeys == { "vaults", "total", "totalTvl", "network", "timestamp" }

\* C28 (as claimed): getAvailableVaults returns vault records with the
\* same set of keys whether the backend answered or the fallback did, and
\* the tool result that wraps them has the same top-level keys in both
\* cases.
C28_SameShapeOnEveryTier ==
    VaultsToolAnswered =>
        /\ ops["defindex"].out.ok
        /\ ops["defindex"].out.val.kind = "array"
        /\ \A i \in DOMAIN ops["defindex"].out.val.items :
              DOMAIN ops["defindex"].out.val.items[i] = VaultKeys
        /\ result.text.fmt = "json"
        /\ DOMAIN result.text.doc = VaultsResultKeys

\* C28 (amended): the vault records of the fallback tier have the keys of
\* the catalog; the records of the live tier are the backend's, as sent,
\* and have those keys when the backend sends complete records; whenever
\* getAvailableVaults resolves with a list, the tool result has the same
\* five top-level keys on either tier.
C28_SameShapeWhenBackendComplete ==
    (VaultsToolAnswered /\ ops["defindex"].out.ok /\ ops["defindex"].out.val.kind = "array") =>
        LET op == ops["defindex"]
            vaults == op.out.val.items
        IN  /\ op.tiers = <<"api", "mock">> =>
                  \A i \in DOMAIN vaults : DOMAIN vaults[i] = VaultKeys
            /\ op.tiers = <<"api">> =>
                  /\ op.out.val = ListOf(op.heard[1], liveVault, partialVault)
                  /\ op.heard[1] = "live" =>
                        /\ Len(vaults) > 0
                        /\ \A i \in DOMAIN vaults : DOMAIN vaults[i] = VaultKeys
            /\ result.text.fmt = "json"
            /\ DOMAIN result.text.doc = VaultsResultKeys
            /\ result.text.doc.vaults = vaults

\* C28 witness: the backend answered with a complete vault record, and
\* the record and the tool result have the keys of the fallback tier.
C28_Witness ==
    /\ VaultsToolAnswered
    /\ ops["defindex"].heard = <<"live">>
    /\ DOMAIN ops["defindex"].out.val.items[1] = VaultKeys
    /\ ops["defindex"].out.val.items[1].address = "CLIVEVAULTADDRESS"
    /\ DOMAIN result.text.doc = VaultsResultKeys

\* the swap adapter's getUserPositions has returned
SwapPositionsReturned ==
    /\ ops["soroswap"].method = "getUserPositions"
    /\ ops["soroswap"].st = "done"
    /\ ops["soroswap"].out.ok

\* the fields of a position record of the mock fallback
MockPositionKeys == DOMAIN soroswapMockUserPositions[1]

\* C29 (as claimed): the position records getUserPositions returns have
\* the same set of fields whether they were built from the ledger's
\* liquidity_pool_shares balances or are the mock fallback.
C29_PositionsSameFieldsOnBothPaths ==
    SwapPositionsReturned =>
        \A i \in DOMAIN ops["soroswap"].out.val.items :
            DOMAIN ops["soroswap"].out.val.items[i] = MockPositionKeys

\* the vault adapter's optimizer fell back to getMockOptimization, called
\* directly or by the standalone server's tool
OptimizerFellBack ==
    /\ served > 0
    /\ pc = "idle"
    /\ ops["defindex"].method = "optimizeYieldAllocation"
    /\ ops["defindex"].st = "done"
    /\ ops["defindex"].tiers = <<"api", "mock">>

TheRiskTolerance == ops["defindex"].params.riskTolerance
TheFallbackPlan == ops["defindex"].out.val.obj.optimization

\* C30: the mock optimizer never rejects a call because of its
\* riskTolerance; every riskTolerance other than "conservative" and
\* "moderate", absent or unknown ones included, is planned as aggressive
\* (30 low, 40 medium, 30 high), and the plan echoes the caller's
\* riskTolerance unchanged; the standalone server's tool returns that plan.
C30_UnknownRiskPlannedAsAggressive ==
    OptimizerFellBack =>
        /\ ops["defindex"].out.ok = ~ToPrimitiveThrows(ops["defindex"].params.totalAmount)
        /\ ops["defindex"].out.ok =>
              /\ TheFallbackPlan.riskTolerance = TheRiskTolerance
              /\ TheRiskTolerance = args.riskTolerance
              /\ TheRiskTolerance \notin { Str("conservative"), Str("moderate") } =>
                    WeightsOf(TheFallbackPlan) =
                      << <<"30", "low">>, <<"40", "medium">>, <<"30", "high">> >>
              /\ name = "optimize_yield_allocation" =>
                    /\ ~result.isError
                    /\ ~IsEnvelope(result.text)
                    /\ result.text.doc.optimization = TheFallbackPlan

\* C30 witness: the standalone tool, invoked with the unknown
\* riskTolerance "bold" while the backend is down, returns a plan over
\* three vaults that says "bold".
C30_Witness ==
    /\ OptimizerFellBack
    /\ name = "optimize_yield_allocation"
    /\ args.riskTolerance = Str("bold")
    /\ ops["defindex"].out.ok
    /\ Len(result.text.doc.optimization.recommendedAllocation) = 3
    /\ result.text.doc.optimization.riskTolerance = Str("bold")

\* C30 witness, second case: the adapter called without a riskTolerance
\* plans over three vaults as well.
C30_WitnessAbsent ==
    /\ OptimizerFellBack
    /\ name = "optimizeYieldAllocation"
    /\ TheRiskTolerance = Undef
    /\ ops["defindex"].out.ok
    /\ Len(TheFallbackPlan.recommendedAllocation) = 3

====
